---------------------------- MODULE Spec2Model ----------------------------
(***************************************************************************)
(* LLM orchestration layer of hello-faceless-content:                      *)
(*   src/core/llm/base.py, claude.py, openai.py, bedrock.py  (providers)   *)
(*   src/core/llm/manager.py                        (routing and fallback) *)
(*   src/utils/cache.py                                   (response cache) *)
(*                                                                         *)
(* Texts are sequences of one-character strings.  Time is counted in whole *)
(* hours.  The cache key digest (MD5 of the canonical JSON) is modelled by *)
(* the canonical structure that is hashed.                                 *)
(***************************************************************************)
EXTENDS Integers, Sequences, FiniteSets, TLC

VARIABLES
    available,        \* LLMManager.available_providers (names), fixed at construction
    model,            \* provider.model, per provider
    cache,            \* the cache directory: key -> entry
    now,              \* datetime.now(), in hours
    pc,               \* position of the running operation
    req,              \* arguments of the running operation
    providers_to_try, \* LLMManager.generate: the attempt list
    idx,              \* LLMManager.generate: position in the attempt list (1-based)
    last_error,       \* LLMManager.generate: last_error
    cur,              \* provider whose generate is running
    attempt,          \* Provider.generate: loop variable of the retry loop
    prov_out,         \* how the running Provider.generate ended
    result,           \* how the operation ended
    events,           \* history: backend calls and sleeps of the running Provider.generate
    invoked,          \* history: providers whose generate the operation invoked, in order
    failed,           \* history: providers whose generate raised, in order
    contacted,        \* history: providers whose backend the operation invoked
    cache_log,        \* history: cache reads and writes of the operation
    routed,           \* history: whether the operation called get_provider
    cache0,           \* history: the cache when the operation started
    lastGen,          \* history: the last cache entry written by LLMManager.generate
    nops,             \* number of operations started
    last_set,         \* history: per request, the response and time of the latest
                      \* LLMCache.set whose entry nothing has deleted since
    threads,          \* concurrent callers: each one's position and locals
    file,             \* the cache file the concurrent callers share
    model0            \* history: the providers' models when the operation started

vars == << available, model, cache, now, pc, req, providers_to_try, idx,
           last_error, cur, attempt, prov_out, result, events, invoked,
           failed, contacted, cache_log, routed, cache0, lastGen, nops,
           last_set, threads, file, model0 >>

----------------------------------------------------------------------------
(* Bounds of the model *)

\* operations (generate calls, direct provider calls, cache calls) per behaviour
MaxOps == 1
\* operations per behaviour of SpecCache
MaxCacheOps == 3
\* steps of the clock per behaviour of SpecCache
MaxTicks == 3
\* longest backend text enumerated by SpecValidate
MaxTextLen == 11
\* calls per behaviour when the response cache is used directly
MaxKeyOps == 2
MaxStoreOps == 3
\* calls per behaviour when the routing is followed from call to call
MaxRouteOps == 2
\* calls per thread when callers run concurrently
MaxThreadOps == 2
\* characters that a buffered file object hands to the file in one write
WriteBufferLen == 8

----------------------------------------------------------------------------
(* Texts *)

RECURSIVE Rep(_, _)
Rep(c, n) == IF n = 0 THEN << >> ELSE <<c>> \o Rep(c, n - 1)

\* the blank stands for every character str.strip() removes
Whitespace == {" "}

\* str.strip(): leading whitespace removed, then trailing whitespace
RECURSIVE LStrip(_)
LStrip(s) == IF s # << >> /\ Head(s) \in Whitespace THEN LStrip(Tail(s)) ELSE s

RECURSIVE RStrip(_)
RStrip(s) ==
    IF s # << >> /\ s[Len(s)] \in Whitespace
    THEN RStrip(SubSeq(s, 1, Len(s) - 1))
    ELSE s

Strip(s) == RStrip(LStrip(s))

MinResponseLen == 10

validate_response_offbyone(response) ==
    IF response = << >> \/ Strip(response) = << >> THEN FALSE
    ELSE IF Len(Strip(response)) < MinResponseLen - 1 THEN FALSE
    ELSE TRUE

validate_response_untrimmed(response) ==
    IF response = << >> \/ Strip(response) = << >> THEN FALSE
    ELSE IF Len(response) < MinResponseLen THEN FALSE
    ELSE TRUE

\* BaseLLMProvider.validate_response
validate_response(response) ==
    IF response = << >> \/ Strip(response) = << >> THEN FALSE
    ELSE IF Len(Strip(response)) < MinResponseLen THEN FALSE
    ELSE TRUE

EmptyText == << >>
\* 9 characters between two blanks: 11 long, 9 after trimming
ShortText == <<" ">> \o Rep("x", 9) \o <<" ">>
\* exactly 10 characters
ValidA == Rep("x", 10)
ValidB == <<" ">> \o Rep("y", 10)

\* what a backend may hand back as text
BackendTexts == {EmptyText, ShortText, ValidA, ValidB}

----------------------------------------------------------------------------
(* Providers *)

\* LLMManager.__init__: the providers dict, in insertion order
Priority == << "claude", "openai", "bedrock" >>
Providers == { Priority[i] : i \in DOMAIN Priority }

None == "None"

\* <Provider>.DEFAULT_MODEL
DEFAULT_MODEL(p) ==
    CASE p = "claude"  -> "claude-3-5-haiku-20241022"
      [] p = "openai"  -> "gpt-4o-mini"
      [] p = "bedrock" -> "anthropic.claude-3-5-haiku-20241022-v1:0"

\* hasattr(provider, "get_cheap_model"): BedrockProvider defines none
has_cheap_model(p) == p \in {"claude", "openai"}

\* <Provider>.get_cheap_model
get_cheap_model(p) ==
    CASE p = "claude" -> "claude-3-5-haiku-20241022"
      [] p = "openai" -> "gpt-4o-mini"

\* <Provider>.get_quality_model
get_quality_model(p) ==
    CASE p = "claude" -> "claude-3-5-sonnet-20241022"
      [] p = "openai" -> "gpt-4o"

max_retries_four == 2 + 2

\* Provider.generate: max_retries, retry_delay
max_retries == 3
retry_delay == 1

RECURSIVE Pow2(_)
Pow2(n) == IF n = 0 THEN 1 ELSE 2 * Pow2(n - 1)

\* wait_time = retry_delay * (2 ** attempt)
wait_time(a) == retry_delay * Pow2(a)

\* what one backend invocation can do: raise the SDK's rate-limit error
\* (RateLimitError; for Bedrock a ClientError with code ThrottlingException),
\* raise another SDK error (APIError; another ClientError), raise anything
\* else, or hand back a text
BackendErrors == {"rate_limit", "api_error", "unexpected"}
Outcome(k, t) == [kind |-> k, text |-> t]
BackendOutcomes(texts) ==
    { Outcome(k, EmptyText) : k \in BackendErrors } \cup { Outcome("text", t) : t \in texts }

NoError == [kind |-> "none", provider |-> None]
Error(k, p) == [kind |-> k, provider |-> p]

NoOut == [ok |-> FALSE, text |-> EmptyText, error |-> NoError]

\* <Provider>.PRICING: per model, the price of a million input and of a million
\* output tokens, in hundredths of a dollar
PRICING(p) ==
    CASE p = "claude" ->
            [m \in {"claude-3-5-haiku-20241022", "claude-3-5-sonnet-20241022",
                    "claude-3-opus-20240229"} |->
                CASE m = "claude-3-5-haiku-20241022"  -> << 25, 125 >>
                  [] m = "claude-3-5-sonnet-20241022" -> << 300, 1500 >>
                  [] m = "claude-3-opus-20240229"     -> << 1500, 7500 >>]
      [] p = "openai" ->
            [m \in {"gpt-4o", "gpt-4o-mini", "gpt-4-turbo", "gpt-3.5-turbo"} |->
                CASE m = "gpt-4o"        -> << 250, 1000 >>
                  [] m = "gpt-4o-mini"   -> << 15, 60 >>
                  [] m = "gpt-4-turbo"   -> << 1000, 3000 >>
                  [] m = "gpt-3.5-turbo" -> << 50, 150 >>]
      [] p = "bedrock" ->
            [m \in {"anthropic.claude-3-5-sonnet-20241022-v2:0",
                    "anthropic.claude-3-5-haiku-20241022-v1:0",
                    "anthropic.claude-3-opus-20240229-v1:0"} |->
                CASE m = "anthropic.claude-3-5-sonnet-20241022-v2:0" -> << 300, 1500 >>
                  [] m = "anthropic.claude-3-5-haiku-20241022-v1:0"  -> << 25, 125 >>
                  [] m = "anthropic.claude-3-opus-20240229-v1:0"     -> << 1500, 7500 >>]

\* a model name that no price table lists
UnknownModel == "unknown-model"

\* what get_cost gives: the cost in 10^-8 dollars (tokens times hundredths of
\* a dollar per million tokens), whether the warning was logged, and whether
\* it returned (ok) or raised
Cost(c, w) == [ok |-> TRUE, cost |-> c, warned |-> w]
CostRaised == [ok |-> FALSE, cost |-> 0, warned |-> FALSE]

get_cost_swapped_prices(p, m, input_tokens, output_tokens) ==
    IF m \notin DOMAIN PRICING(p) THEN Cost(0, TRUE)
    ELSE Cost(input_tokens * PRICING(p)[m][2] + output_tokens * PRICING(p)[m][1], FALSE)

get_cost_key_error(p, m, input_tokens, output_tokens) ==
    IF m \notin DOMAIN PRICING(p) THEN CostRaised
    ELSE Cost(input_tokens * PRICING(p)[m][1] + output_tokens * PRICING(p)[m][2], FALSE)

\* <Provider>.get_cost(input_tokens, output_tokens) with self.model = m:
\* (input_tokens / 1_000_000) * input_cost_per_million
\*     + (output_tokens / 1_000_000) * output_cost_per_million,
\* as the exact number over the denominator 10^8
get_cost(p, m, input_tokens, output_tokens) ==
    IF m \notin DOMAIN PRICING(p) THEN Cost(0, TRUE)
    ELSE LET input_cost_per_million == PRICING(p)[m][1]
             output_cost_per_million == PRICING(p)[m][2]
             input_cost == input_tokens * input_cost_per_million
             output_cost == output_tokens * output_cost_per_million
         IN Cost(input_cost + output_cost, FALSE)

----------------------------------------------------------------------------
(* Routing: LLMManager.get_provider *)

\* the provider names a caller passes; str.lower() on them
ProviderNames == {None, "claude", "OpenAI", "bedrock"}
Lower(name) == IF name = "OpenAI" THEN "openai" ELSE name

TaskTypes == {"general", "simple", "script_generation", "refinement"}

FirstAvailable_or_first_configured(av) ==
    IF \E i \in DOMAIN Priority : Priority[i] \in av
    THEN Priority[CHOOSE i \in DOMAIN Priority :
                    /\ Priority[i] \in av
                    /\ \A j \in DOMAIN Priority : Priority[j] \in av => i <= j]
    ELSE Priority[1]

\* first provider of the dict that is available (the dict keeps insertion order)
FirstAvailable(av) ==
    IF \E i \in DOMAIN Priority : Priority[i] \in av
    THEN Priority[CHOOSE i \in DOMAIN Priority :
                    /\ Priority[i] \in av
                    /\ \A j \in DOMAIN Priority : Priority[j] \in av => i <= j]
    ELSE None

Routed(p, m) == [provider |-> p, model |-> m]

CheapBranch_keeps_model(av, m) == Routed(FirstAvailable(av), m)

\* the "simple" and "refinement" branches
CheapBranch(av, m) ==
    LET p == FirstAvailable(av) IN
    IF p = None THEN Routed(None, m)
    ELSE IF has_cheap_model(p)
         THEN Routed(p, [m EXCEPT ![p] = get_cheap_model(p)])
         ELSE Routed(p, m)

QualityBranch_openai_as_is(av, m) ==
    IF "claude" \in av
    THEN Routed("claude", [m EXCEPT !["claude"] = get_quality_model("claude")])
    ELSE Routed(FirstAvailable(av), m)

\* the "script_generation" branch; it falls through when neither is available
QualityBranch(av, m) ==
    IF "claude" \in av
    THEN Routed("claude", [m EXCEPT !["claude"] = get_quality_model("claude")])
    ELSE IF "openai" \in av
         THEN Routed("openai", [m EXCEPT !["openai"] = get_quality_model("openai")])
         ELSE Routed(FirstAvailable(av), m)

get_provider_override_keeps_task_model(av, m, provider_name, task_type) ==
    LET byTask == CASE task_type = "simple"            -> CheapBranch(av, m)
                    [] task_type = "script_generation" -> QualityBranch(av, m)
                    [] task_type = "refinement"        -> CheapBranch(av, m)
                    [] OTHER                           -> Routed(FirstAvailable(av), m)
    IN IF provider_name # None /\ Lower(provider_name) \in av
       THEN Routed(Lower(provider_name), byTask.model)
       ELSE byTask

get_provider_named_unchecked(av, m, provider_name, task_type) ==
    IF provider_name # None
    THEN Routed(Lower(provider_name), m)
    ELSE CASE task_type = "simple"            -> CheapBranch(av, m)
           [] task_type = "script_generation" -> QualityBranch(av, m)
           [] task_type = "refinement"        -> CheapBranch(av, m)
           [] OTHER                           -> Routed(FirstAvailable(av), m)

get_provider_generic_resets(av, m, provider_name, task_type) ==
    IF provider_name # None /\ Lower(provider_name) \in av
    THEN Routed(Lower(provider_name), m)
    ELSE CASE task_type = "simple"            -> CheapBranch(av, m)
           [] task_type = "script_generation" -> QualityBranch(av, m)
           [] task_type = "refinement"        -> CheapBranch(av, m)
           [] OTHER ->
                IF FirstAvailable(av) = None THEN Routed(None, m)
                ELSE Routed(FirstAvailable(av),
                            [m EXCEPT ![FirstAvailable(av)] =
                                            DEFAULT_MODEL(FirstAvailable(av))])

\* LLMManager.get_provider: the provider returned (None for no provider) and
\* the providers' models on return
get_provider(av, m, provider_name, task_type) ==
    IF provider_name # None /\ Lower(provider_name) \in av
    THEN Routed(Lower(provider_name), m)
    ELSE CASE task_type = "simple"            -> CheapBranch(av, m)
           [] task_type = "script_generation" -> QualityBranch(av, m)
           [] task_type = "refinement"        -> CheapBranch(av, m)
           [] OTHER                           -> Routed(FirstAvailable(av), m)

\* the available providers of s other than the primary, in the order of s
RECURSIVE SelectOthers(_, _, _)
SelectOthers(s, av, primary) ==
    IF s = << >> THEN << >>
    ELSE (IF Head(s) \in av /\ Head(s) # primary THEN << Head(s) >> ELSE << >>)
         \o SelectOthers(Tail(s), av, primary)

attempt_list_with_primary_twice(av, primary, fallback) ==
    << primary >> \o (IF fallback THEN SelectOthers(Priority, av, None) ELSE << >>)

attempt_list_ignores_flag(av, primary, fallback) ==
    << primary >> \o SelectOthers(Priority, av, primary)

\* LLMManager.generate: providers_to_try = [provider] + fallback_providers
attempt_list(av, primary, fallback) ==
    << primary >> \o (IF fallback THEN SelectOthers(Priority, av, primary) ELSE << >>)

----------------------------------------------------------------------------
(* Response cache: LLMCache *)

Prompts == {"p1"}

\* **kwargs: a dict, here the sequence of its (name, value) pairs in insertion
\* order, the names distinct; None is a value like any other
NoKwargs == << >>

\* the order of Python on the strings that occur as names
KeyOrder == << "max_tokens", "model", "prompt", "temperature" >>
Rank(k) == CHOOSE i \in DOMAIN KeyOrder : KeyOrder[i] = k

\* sorted(d.items()) on distinct names, and the key order of
\* json.dumps(d, sort_keys=True)
RECURSIVE InsertByName(_, _)
InsertByName(kv, s) ==
    IF s = << >> THEN << kv >>
    ELSE IF Rank(kv[1]) < Rank(Head(s)[1]) THEN << kv >> \o s
         ELSE << Head(s) >> \o InsertByName(kv, Tail(s))

RECURSIVE SortByName(_)
SortByName(d) ==
    IF d = << >> THEN << >> ELSE InsertByName(Head(d), SortByName(Tail(d)))

\* {k: v for k, v in ... if v is not None}
NotNone(d) == SelectSeq(d, LAMBDA kv : kv[2] # None)

\* LLMCache._generate_cache_key: the dict cache_input
cache_input(prompt, mdl, kwargs) ==
    << << "prompt", prompt >>, << "model", mdl >> >> \o NotNone(SortByName(kwargs))

generate_cache_key_insertion_order(prompt, mdl, kwargs) ==
    << << "prompt", prompt >>, << "model", mdl >> >> \o NotNone(kwargs)

\* LLMCache._generate_cache_key: the digest of json.dumps(cache_input,
\* sort_keys=True); a digest stands for the text it was computed from
generate_cache_key(prompt, mdl, kwargs) ==
    SortByName(cache_input(prompt, mdl, kwargs))

MaxAgeHours_half == 42 + 42

\* timedelta(hours=max_age_hours) in LLMManager.generate
MaxAgeHours == 168

\* LLMCache.set: cache_data
Entry(prompt, mdl, response, at, kwargs) ==
    [prompt |-> prompt, model |-> mdl, response |-> response, cached_at |-> at,
     parameters |-> NotNone(kwargs)]

\* a file of the cache directory that is not the JSON document of an entry
\* (cut short, or the mixture two writers leave): its content
Damaged == [data |-> << "{", "x" >>]
Readable(e) == "cached_at" \in DOMAIN e

Without(c, key) == [k \in DOMAIN c \ {key} |-> c[k]]
With(c, key, e) == [k \in DOMAIN c \cup {key} |-> IF k = key THEN e ELSE c[k]]

Lookup(hit, response, c) == [hit |-> hit, response |-> response, cache |-> c]

cache_get_expire_at_boundary(c, t, prompt, mdl, max_age_hours, kwargs) ==
    LET key == generate_cache_key(prompt, mdl, kwargs) IN
    IF key \notin DOMAIN c THEN Lookup(FALSE, EmptyText, c)
    ELSE IF t - c[key].cached_at >= max_age_hours
         THEN Lookup(FALSE, EmptyText, Without(c, key))
         ELSE Lookup(TRUE, c[key].response, c)

cache_get_keep_expired(c, t, prompt, mdl, max_age_hours, kwargs) ==
    LET key == generate_cache_key(prompt, mdl, kwargs) IN
    IF key \notin DOMAIN c THEN Lookup(FALSE, EmptyText, c)
    ELSE IF t - c[key].cached_at > max_age_hours
         THEN Lookup(FALSE, EmptyText, c)
         ELSE Lookup(TRUE, c[key].response, c)

cache_get_deletes_unreadable(c, t, prompt, mdl, max_age_hours, kwargs) ==
    LET key == generate_cache_key(prompt, mdl, kwargs) IN
    IF key \notin DOMAIN c THEN Lookup(FALSE, EmptyText, c)
    ELSE IF ~Readable(c[key]) THEN Lookup(FALSE, EmptyText, Without(c, key))
    ELSE IF t - c[key].cached_at > max_age_hours
         THEN Lookup(FALSE, EmptyText, Without(c, key))
         ELSE Lookup(TRUE, c[key].response, c)

\* LLMCache.get: the response returned (hit = FALSE for None) and the store
\* afterwards; an entry older than max_age_hours is deleted; a file that
\* json.load or the reading of "cached_at" fails on is a miss and stays
cache_get(c, t, prompt, mdl, max_age_hours, kwargs) ==
    LET key == generate_cache_key(prompt, mdl, kwargs) IN
    IF key \notin DOMAIN c THEN Lookup(FALSE, EmptyText, c)
    ELSE IF ~Readable(c[key]) THEN Lookup(FALSE, EmptyText, c)
    ELSE IF t - c[key].cached_at > max_age_hours
         THEN Lookup(FALSE, EmptyText, Without(c, key))
         ELSE Lookup(TRUE, c[key].response, c)

cache_set_keep_existing(c, t, prompt, mdl, response, kwargs) ==
    IF generate_cache_key(prompt, mdl, kwargs) \in DOMAIN c THEN c
    ELSE With(c, generate_cache_key(prompt, mdl, kwargs),
              Entry(prompt, mdl, response, t, kwargs))

\* LLMCache.set: the store afterwards
cache_set(c, t, prompt, mdl, response, kwargs) ==
    With(c, generate_cache_key(prompt, mdl, kwargs),
         Entry(prompt, mdl, response, t, kwargs))

\* LLMManager.generate: "if cached_response:"
cached_response_usable(r) == r.hit /\ r.response # EmptyText

----------------------------------------------------------------------------
(* State *)

NoReq == [op |-> "none", prompt |-> None, provider_name |-> None,
          task_type |-> None, use_cache |-> FALSE, fallback |-> FALSE]
NoResult == [kind |-> "none", text |-> EmptyText, source |-> None,
             error |-> "none", last |-> NoError]
NoGen == [valid |-> FALSE, key |-> generate_cache_key(None, None, NoKwargs),
          by |-> NoReq, text |-> EmptyText, at |-> 0]

\* the request that wrote an entry, remembered when it states its generation
\* parameters (max_tokens, temperature, ...) explicitly
WrittenBy(r) == IF "max_tokens" \in DOMAIN r THEN r ELSE NoReq

Returned(t, src) == [kind |-> "returned", text |-> t, source |-> src,
                     error |-> "none", last |-> NoError]
\* raise Exception(msg) by LLMManager.generate; last is the error the message quotes
Raised(e, l) == [kind |-> "raised", text |-> EmptyText, source |-> None,
                 error |-> e, last |-> l]

\* LLMCache.get returned None
Missed == [kind |-> "miss", text |-> EmptyText, source |-> None,
           error |-> "none", last |-> NoError]

DefaultModels == [p \in Providers |-> DEFAULT_MODEL(p)]

\* what a request asks for, whatever the order of its keyword parameters: the
\* prompt, the model name and the parameters that are not None
RequestId(prompt, mdl, kwargs) ==
    [prompt |-> prompt, model |-> mdl,
     params |-> { kwargs[i] : i \in { j \in DOMAIN kwargs : kwargs[j][2] # None } }]
LastSet(response, at) == [response |-> response, at |-> at]

\* the threads that call into the one manager and the one cache of the process
Threads == {"t1", "t2"}
NoText == [some |-> FALSE, text |-> EmptyText]
SomeText(t) == [some |-> TRUE, text |-> t]
\* a thread: the call it is in (op, pc) and how many it has made (n); in the
\* cache: the response to store (text), what is left of the buffered output
\* (buf), the offset of its file object (off), what get returned (hit,
\* response), history (had: the complete entry present when its get began;
\* sets: files it has written); in the manager: the task type, the provider
\* routed to, the model routing left it on, the model of its latest backend
\* call, the calls made (task, provider, selected, used, calls, attempt)
IdleThread ==
    [pc |-> "idle", op |-> "none", n |-> 0, text |-> EmptyText, buf |-> << >>,
     off |-> 0, hit |-> FALSE, response |-> EmptyText, had |-> NoText, sets |-> 0,
     task |-> None, provider |-> None, selected |-> None, used |-> None,
     calls |-> 0, attempt |-> 0]
\* a path of the cache directory: whether the file exists and its content;
\* history (committed): the response of the latest set that has closed it
NoFile == [exists |-> FALSE, data |-> << >>, committed |-> NoText, at |-> 0]

\* the process after "llm_cache = LLMCache()" and "llm_manager = LLMManager()":
\* a provider is available iff its credentials are set, which the environment decides
Init ==
    /\ available \in SUBSET Providers
    /\ model = DefaultModels
    /\ cache = << >>
    /\ now = 0
    /\ pc = "idle"
    /\ req = NoReq
    /\ providers_to_try = << >>
    /\ idx = 0
    /\ last_error = NoError
    /\ cur = None
    /\ attempt = 0
    /\ prov_out = NoOut
    /\ result = NoResult
    /\ events = << >>
    /\ invoked = << >>
    /\ failed = << >>
    /\ contacted = {}
    /\ cache_log = << >>
    /\ routed = FALSE
    /\ cache0 = << >>
    /\ lastGen = NoGen
    /\ nops = 0
    /\ last_set = << >>
    /\ threads = [t \in Threads |-> IdleThread]
    /\ file = NoFile
    /\ model0 = DefaultModels

\* the locals and histories of an operation, as a new operation finds them
FreshLocals ==
    /\ providers_to_try' = << >>
    /\ idx' = 0
    /\ last_error' = NoError
    /\ cur' = None
    /\ attempt' = 0
    /\ prov_out' = NoOut
    /\ result' = NoResult
    /\ events' = << >>
    /\ invoked' = << >>
    /\ failed' = << >>
    /\ contacted' = {}
    /\ cache_log' = << >>
    /\ routed' = FALSE

cache_kwargs_forwarded(r) == IF "kwargs" \in DOMAIN r THEN r.kwargs ELSE NoKwargs

\* the keyword arguments that LLMManager.generate hands to llm_cache.get and
\* llm_cache.set besides prompt, model=task_type, max_age_hours and response:
\* none, whatever the request r names
cache_kwargs(r) == NoKwargs

ReqKey == generate_cache_key(req.prompt, req.task_type, cache_kwargs(req))

----------------------------------------------------------------------------
(* LLMManager.generate *)

\* a caller enters LLMManager.generate
GenerateCall(prompt, provider_name, task_type, use_cache, fallback) ==
    /\ pc = "idle"
    /\ model0' = model
    /\ nops' = nops + 1
    /\ req' = [op |-> "generate", prompt |-> prompt, provider_name |-> provider_name,
               task_type |-> task_type, use_cache |-> use_cache, fallback |-> fallback]
    /\ pc' = "check_cache"
    /\ cache0' = cache
    /\ FreshLocals
    /\ UNCHANGED << threads, file, last_set, available, model, cache, now, lastGen >>

\* "Check cache first"
CheckCache ==
    /\ pc = "check_cache"
    /\ last_set' = IF req.use_cache /\ ReqKey \in DOMAIN cache
                      /\ ReqKey \notin DOMAIN cache_get(cache, now, req.prompt, req.task_type,
                                                        MaxAgeHours, cache_kwargs(req)).cache
                   THEN Without(last_set, RequestId(req.prompt, req.task_type, cache_kwargs(req)))
                   ELSE last_set
    /\ IF req.use_cache
       THEN LET r == cache_get(cache, now, req.prompt, req.task_type, MaxAgeHours, cache_kwargs(req)) IN
            /\ cache' = r.cache
            /\ cache_log' = Append(cache_log, "get")
            /\ lastGen' = IF lastGen.valid /\ lastGen.key \notin DOMAIN r.cache
                          THEN NoGen ELSE lastGen
            /\ IF cached_response_usable(r)
               THEN /\ result' = Returned(r.response, "cache")
                    /\ pc' = "done"
               ELSE /\ result' = result
                    /\ pc' = "route"
       ELSE /\ pc' = "route"
            /\ UNCHANGED << cache, cache_log, lastGen, result >>
    /\ UNCHANGED << model0, threads, file, available, model, now, req, providers_to_try, idx, last_error,
                    cur, attempt, prov_out, events, invoked, failed, contacted, routed,
                    cache0, nops >>

\* "Get primary provider" and "Build fallback chain"
Route ==
    /\ pc = "route"
    /\ routed' = TRUE
    /\ LET r == get_provider(available, model, req.provider_name, req.task_type) IN
       /\ model' = r.model
       /\ IF r.provider = None
          THEN /\ result' = Raised("no_providers", NoError)
               /\ pc' = "done"
               /\ UNCHANGED << providers_to_try, idx >>
          ELSE /\ providers_to_try' = attempt_list(available, r.provider, req.fallback)
               /\ idx' = 1
               /\ pc' = "attempt"
               /\ result' = result
    /\ UNCHANGED << model0, threads, file, last_set, available, cache, now, req, last_error, cur, attempt, prov_out,
                    events, invoked, failed, contacted, cache_log, cache0, lastGen, nops >>

\* Provider.generate is entered: "if not self.is_available(): raise"
EnterProvider(p) ==
    /\ cur' = p
    /\ invoked' = Append(invoked, p)
    /\ events' = << >>
    /\ attempt' = 0
    /\ IF p \in available
       THEN /\ pc' = "backend"
            /\ prov_out' = NoOut
       ELSE /\ pc' = "provider_done"
            /\ prov_out' = [ok |-> FALSE, text |-> EmptyText,
                            error |-> Error("not_configured", p)]

\* the loop of LLMManager.generate calls current_provider.generate
Attempt ==
    /\ pc = "attempt"
    /\ EnterProvider(providers_to_try[idx])
    /\ UNCHANGED << model0, threads, file, last_set, available, model, cache, now, req, providers_to_try, idx, last_error,
                    result, failed, contacted, cache_log, routed, cache0, lastGen, nops >>

----------------------------------------------------------------------------
(* Provider.generate: one iteration of "for attempt in range(max_retries)" *)

\* how an iteration ends: sleep and go round again, return the text, or raise
Retry(w)    == [next |-> "retry",  wait |-> w, text |-> EmptyText, error |-> "none"]
ReturnText_truncated(t) ==
    [next |-> "return", wait |-> 0, text |-> SubSeq(t, 1, Len(t) - 1), error |-> "none"]

ReturnText(t) == [next |-> "return", wait |-> 0, text |-> t, error |-> "none"]
Raise(e)    == [next |-> "raise",  wait |-> 0, text |-> EmptyText, error |-> e]

claude_iteration_retry_invalid(a, o) ==
    CASE o.kind = "text" ->
            IF validate_response(o.text) THEN ReturnText(o.text)
            ELSE IF a < max_retries - 1 THEN Retry(wait_time(a))
            ELSE Raise("invalid_response")
      [] o.kind = "rate_limit" ->
            IF a < max_retries - 1 THEN Retry(wait_time(a)) ELSE Raise("rate_limit")
      [] o.kind = "api_error" -> Raise("api_error")
      [] OTHER -> Raise("unexpected")

claude_iteration_retry_api_error(a, o) ==
    CASE o.kind = "text" ->
            IF validate_response(o.text) THEN ReturnText(o.text)
            ELSE Raise("invalid_response")
      [] o.kind \in {"rate_limit", "api_error"} ->
            IF a < max_retries - 1 THEN Retry(wait_time(a)) ELSE Raise(o.kind)
      [] OTHER -> Raise("unexpected")

claude_iteration_two_attempts(a, o) ==
    CASE o.kind = "text" ->
            IF validate_response(o.text) THEN ReturnText(o.text)
            ELSE Raise("invalid_response")
      [] o.kind = "rate_limit" ->
            IF a < max_retries - 2 THEN Retry(wait_time(a)) ELSE Raise("rate_limit")
      [] o.kind = "api_error" -> Raise("api_error")
      [] OTHER -> Raise("unexpected")

\* ClaudeProvider.generate, the body of the retry loop
claude_iteration(a, o) ==
    CASE o.kind = "text" ->
            \* "if not self.validate_response(response): raise Exception(...)" is
            \* inside the try: "except Exception" logs it and raises it again
            IF validate_response(o.text) THEN ReturnText(o.text)
            ELSE Raise("invalid_response")
      [] o.kind = "rate_limit" ->
            IF a < max_retries - 1 THEN Retry(wait_time(a)) ELSE Raise("rate_limit")
      [] o.kind = "api_error" -> Raise("api_error")
      [] OTHER -> Raise("unexpected")

openai_iteration_four_attempts(a, o) ==
    CASE o.kind = "text" ->
            IF validate_response(o.text) THEN ReturnText(o.text)
            ELSE Raise("invalid_response")
      [] o.kind = "rate_limit" ->
            IF a < max_retries THEN Retry(wait_time(a)) ELSE Raise("rate_limit")
      [] o.kind = "api_error" -> Raise("api_error")
      [] OTHER -> Raise("unexpected")

\* OpenAIProvider.generate, the body of the retry loop
openai_iteration(a, o) ==
    CASE o.kind = "text" ->
            IF validate_response(o.text) THEN ReturnText(o.text)
            ELSE Raise("invalid_response")
      [] o.kind = "rate_limit" ->
            IF a < max_retries - 1 THEN Retry(wait_time(a)) ELSE Raise("rate_limit")
      [] o.kind = "api_error" -> Raise("api_error")
      [] OTHER -> Raise("unexpected")

bedrock_iteration_constant_delay(a, o) ==
    CASE o.kind = "text" ->
            IF validate_response(o.text) THEN ReturnText(o.text)
            ELSE Raise("invalid_response")
      [] o.kind \in {"rate_limit", "api_error"} ->
            IF o.kind = "rate_limit" /\ a < max_retries - 1
            THEN Retry(retry_delay)
            ELSE Raise(o.kind)
      [] OTHER -> Raise("unexpected")

bedrock_iteration_retry_any_client_error(a, o) ==
    CASE o.kind = "text" ->
            IF validate_response(o.text) THEN ReturnText(o.text)
            ELSE Raise("invalid_response")
      [] o.kind \in {"rate_limit", "api_error"} ->
            IF a < max_retries - 1 THEN Retry(wait_time(a)) ELSE Raise(o.kind)
      [] OTHER -> Raise("unexpected")

\* BedrockProvider.generate, the body of the retry loop; both "rate_limit" and
\* "api_error" are ClientError, told apart by the error code
bedrock_iteration(a, o) ==
    CASE o.kind = "text" ->
            IF validate_response(o.text) THEN ReturnText(o.text)
            ELSE Raise("invalid_response")
      [] o.kind \in {"rate_limit", "api_error"} ->
            IF o.kind = "rate_limit" /\ a < max_retries - 1
            THEN Retry(wait_time(a))
            ELSE Raise(o.kind)
      [] OTHER -> Raise("unexpected")

\* message.usage of a backend answer; an answer that names none has 0 tokens
input_tokens_of(o) == IF "input_tokens" \in DOMAIN o THEN o.input_tokens ELSE 0
output_tokens_of(o) == IF "output_tokens" \in DOMAIN o THEN o.output_tokens ELSE 0

\* Provider.generate between the validation and "return response": get_cost is
\* called inside the try (Bedrock: only "if input_tokens > 0"), so an exception
\* of get_cost would be logged by "except Exception" and raised again
log_cost(p, m, o, st) ==
    IF st.next # "return" THEN st
    ELSE IF p = "bedrock" /\ ~(input_tokens_of(o) > 0) THEN st
    ELSE IF get_cost(p, m, input_tokens_of(o), output_tokens_of(o)).ok THEN st
    ELSE Raise("unexpected")

iteration(p, a, o) ==
    CASE p = "claude"  -> claude_iteration(a, o)
      [] p = "openai"  -> openai_iteration(a, o)
      [] p = "bedrock" -> bedrock_iteration(a, o)

CallEvent(o) == [e |-> "call", kind |-> o.kind, text |-> o.text, wait |-> 0]
SleepEvent(w) == [e |-> "sleep", kind |-> "none", text |-> EmptyText, wait |-> w]

\* one iteration of the retry loop of cur, the backend answering o
Iterate(o) ==
    /\ pc = "backend"
    /\ contacted' = contacted \cup {cur}
    /\ LET st == log_cost(cur, model[cur], o, iteration(cur, attempt, o)) IN
       CASE st.next = "retry" ->
               \* time.sleep(wait_time), then the next iteration
               /\ events' = events \o << CallEvent(o), SleepEvent(st.wait) >>
               /\ attempt' = attempt + 1
               \* (a loop that ran out would fall off the end of generate)
               /\ pc' = IF attempt + 1 < max_retries THEN "backend" ELSE "provider_done"
               /\ prov_out' = IF attempt + 1 < max_retries THEN prov_out
                              ELSE [ok |-> TRUE, text |-> EmptyText, error |-> NoError]
         [] st.next = "return" ->
               /\ events' = Append(events, CallEvent(o))
               /\ prov_out' = [ok |-> TRUE, text |-> st.text, error |-> NoError]
               /\ pc' = "provider_done"
               /\ attempt' = attempt
         [] OTHER ->
               /\ events' = Append(events, CallEvent(o))
               /\ prov_out' = [ok |-> FALSE, text |-> EmptyText,
                               error |-> Error(st.error, cur)]
               /\ pc' = "provider_done"
               /\ attempt' = attempt
    /\ UNCHANGED << model0, threads, file, last_set, available, model, cache, now, req, providers_to_try, idx, last_error,
                    cur, result, invoked, failed, cache_log, routed, cache0, lastGen, nops >>

ProviderSucceeded_keeps_going ==
    /\ pc = "provider_done"
    /\ last_set' = IF req.use_cache
                   THEN With(last_set, RequestId(req.prompt, req.task_type, cache_kwargs(req)),
                             LastSet(prov_out.text, now))
                   ELSE last_set
    /\ req.op = "generate"
    /\ prov_out.ok
    /\ IF req.use_cache
       THEN /\ cache' = cache_set(cache, now, req.prompt, req.task_type,
                                  prov_out.text, cache_kwargs(req))
            /\ cache_log' = Append(cache_log, "set")
            /\ lastGen' = [valid |-> TRUE, key |-> ReqKey, by |-> WrittenBy(req), text |-> prov_out.text,
                           at |-> now]
       ELSE UNCHANGED << cache, cache_log, lastGen >>
    /\ IF idx < Len(providers_to_try)
       THEN /\ idx' = idx + 1
            /\ pc' = "attempt"
            /\ result' = result
       ELSE /\ idx' = idx
            /\ pc' = "done"
            /\ result' = Returned(prov_out.text, cur)
    /\ UNCHANGED << model0, threads, file, available, model, now, req, providers_to_try, last_error, cur,
                    attempt, prov_out, events, invoked, failed, contacted, routed, cache0,
                    nops >>

\* current_provider.generate returned: "Cache the response" and return it
ProviderSucceeded ==
    /\ pc = "provider_done"
    /\ last_set' = IF req.use_cache
                   THEN With(last_set, RequestId(req.prompt, req.task_type, cache_kwargs(req)),
                             LastSet(prov_out.text, now))
                   ELSE last_set
    /\ req.op = "generate"
    /\ prov_out.ok
    /\ IF req.use_cache
       THEN /\ cache' = cache_set(cache, now, req.prompt, req.task_type,
                                  prov_out.text, cache_kwargs(req))
            /\ cache_log' = Append(cache_log, "set")
            /\ lastGen' = [valid |-> TRUE, key |-> ReqKey, by |-> WrittenBy(req), text |-> prov_out.text,
                           at |-> now]
       ELSE UNCHANGED << cache, cache_log, lastGen >>
    /\ result' = Returned(prov_out.text, cur)
    /\ pc' = "done"
    /\ UNCHANGED << model0, threads, file, available, model, now, req, providers_to_try, idx, last_error, cur,
                    attempt, prov_out, events, invoked, failed, contacted, routed, cache0,
                    nops >>

ProviderFailed_drops_provider ==
    /\ pc = "provider_done"
    /\ req.op = "generate"
    /\ ~prov_out.ok
    /\ last_error' = prov_out.error
    /\ failed' = Append(failed, cur)
    /\ available' = available \ {cur}
    /\ IF ~req.fallback \/ idx = Len(providers_to_try)
       THEN /\ result' = Raised("all_failed", prov_out.error)
            /\ pc' = "done"
            /\ idx' = idx
       ELSE /\ idx' = idx + 1
            /\ pc' = "attempt"
            /\ result' = result
    /\ UNCHANGED << model0, threads, file, last_set, model, cache, now, req, providers_to_try, cur, attempt,
                    prov_out, events, invoked, contacted, cache_log, routed, cache0,
                    lastGen, nops >>

\* current_provider.generate raised: "except Exception as e"
ProviderFailed ==
    /\ pc = "provider_done"
    /\ req.op = "generate"
    /\ ~prov_out.ok
    /\ last_error' = prov_out.error
    /\ failed' = Append(failed, cur)
    /\ IF ~req.fallback \/ idx = Len(providers_to_try)
       THEN \* break, then "raise Exception(All LLM providers failed ...)"
            /\ result' = Raised("all_failed", prov_out.error)
            /\ pc' = "done"
            /\ idx' = idx
       ELSE \* continue
            /\ idx' = idx + 1
            /\ pc' = "attempt"
            /\ result' = result
    /\ UNCHANGED << model0, threads, file, last_set, available, model, cache, now, req, providers_to_try, cur, attempt,
                    prov_out, events, invoked, contacted, cache_log, routed, cache0,
                    lastGen, nops >>

\* the caller takes the text or the exception
Return ==
    /\ pc = "done"
    /\ model0' = model
    /\ pc' = "idle"
    /\ req' = NoReq
    /\ cache0' = << >>
    /\ FreshLocals
    /\ UNCHANGED << threads, file, last_set, available, model, cache, now, lastGen, nops >>

----------------------------------------------------------------------------
(* Operations called directly *)

\* a caller enters <Provider>.generate of provider p
ProviderCall(p, prompt) ==
    /\ pc = "idle"
    /\ model0' = model
    /\ nops' = nops + 1
    /\ req' = [op |-> "provider", prompt |-> prompt, provider_name |-> p,
               task_type |-> None, use_cache |-> FALSE, fallback |-> FALSE]
    /\ cache0' = cache
    /\ providers_to_try' = << >>
    /\ idx' = 0
    /\ last_error' = NoError
    /\ result' = NoResult
    /\ contacted' = {}
    /\ cache_log' = << >>
    /\ routed' = FALSE
    /\ invoked' = << >>
    /\ failed' = << >>
    /\ cur' = p
    /\ events' = << >>
    /\ attempt' = 0
    /\ IF p \in available
       THEN /\ pc' = "backend"
            /\ prov_out' = NoOut
       ELSE /\ pc' = "provider_done"
            /\ prov_out' = [ok |-> FALSE, text |-> EmptyText,
                            error |-> Error("not_configured", p)]
    /\ UNCHANGED << threads, file, last_set, available, model, cache, now, lastGen >>

\* <Provider>.generate, called directly, returned or raised
ProviderReturn ==
    /\ pc = "provider_done"
    /\ req.op = "provider"
    /\ result' = IF prov_out.ok THEN Returned(prov_out.text, cur)
                 ELSE Raised(prov_out.error.kind, prov_out.error)
    /\ pc' = "done"
    /\ UNCHANGED << model0, threads, file, last_set, available, model, cache, now, req, providers_to_try, idx, last_error,
                    cur, attempt, prov_out, events, invoked, failed, contacted, cache_log,
                    routed, cache0, lastGen, nops >>

\* llm_cache.set(prompt, model, response), as one step
CacheSet(prompt, mdl, response) ==
    /\ pc = "idle"
    /\ last_set' = With(last_set, RequestId(prompt, mdl, NoKwargs), LastSet(response, now))
    /\ nops' = nops + 1
    /\ cache' = cache_set(cache, now, prompt, mdl, response, NoKwargs)
    /\ lastGen' = IF lastGen.valid /\ lastGen.key = generate_cache_key(prompt, mdl, NoKwargs)
                  THEN NoGen ELSE lastGen
    /\ UNCHANGED << model0, threads, file, available, model, now, pc, req, providers_to_try, idx, last_error,
                    cur, attempt, prov_out, result, events, invoked, failed, contacted,
                    cache_log, routed, cache0 >>

\* llm_cache.set(prompt, model, response, **kwargs), as one step
CacheSetWith(prompt, mdl, response, kwargs) ==
    /\ pc = "idle"
    /\ nops' = nops + 1
    /\ cache' = cache_set(cache, now, prompt, mdl, response, kwargs)
    /\ last_set' = With(last_set, RequestId(prompt, mdl, kwargs), LastSet(response, now))
    /\ lastGen' = IF lastGen.valid /\ lastGen.key = generate_cache_key(prompt, mdl, kwargs)
                  THEN NoGen ELSE lastGen
    /\ UNCHANGED << model0, threads, file, available, model, now, pc, req, providers_to_try, idx,
                    last_error, cur, attempt, prov_out, result, events, invoked, failed,
                    contacted, cache_log, routed, cache0 >>

\* llm_cache.get(prompt, model, max_age_hours, **kwargs) has returned
CacheGet(prompt, mdl, max_age_hours, kwargs) ==
    /\ pc = "idle"
    /\ model0' = model
    /\ nops' = nops + 1
    /\ req' = [op |-> "get", prompt |-> prompt, provider_name |-> None,
               task_type |-> mdl, use_cache |-> TRUE, fallback |-> FALSE,
               kwargs |-> kwargs, max_age_hours |-> max_age_hours,
               key |-> generate_cache_key(prompt, mdl, kwargs)]
    /\ cache0' = cache
    /\ LET r == cache_get(cache, now, prompt, mdl, max_age_hours, kwargs)
           key == generate_cache_key(prompt, mdl, kwargs)
           deleted == key \in DOMAIN cache /\ key \notin DOMAIN r.cache
       IN
       /\ cache' = r.cache
       /\ result' = IF r.hit THEN Returned(r.response, "cache") ELSE Missed
       /\ last_set' = IF deleted THEN Without(last_set, RequestId(prompt, mdl, kwargs))
                      ELSE last_set
       /\ lastGen' = IF deleted /\ lastGen.valid /\ lastGen.key = key THEN NoGen ELSE lastGen
    /\ cache_log' = << "get" >>
    /\ pc' = "done"
    /\ providers_to_try' = << >>
    /\ idx' = 0
    /\ last_error' = NoError
    /\ cur' = None
    /\ attempt' = 0
    /\ prov_out' = NoOut
    /\ events' = << >>
    /\ invoked' = << >>
    /\ failed' = << >>
    /\ contacted' = {}
    /\ routed' = FALSE
    /\ UNCHANGED << threads, file, available, model, now >>

\* LLMManager.clear_cache -> LLMCache.clear_all, as one step
ClearCache ==
    /\ pc = "idle"
    /\ last_set' = << >>
    /\ cache # << >>
    /\ nops' = nops + 1
    /\ cache' = << >>
    /\ lastGen' = NoGen
    /\ UNCHANGED << model0, threads, file, available, model, now, pc, req, providers_to_try, idx, last_error,
                    cur, attempt, prov_out, result, events, invoked, failed, contacted,
                    cache_log, routed, cache0 >>

\* time passes between operations, half the maximum age at a time
TickHours == MaxAgeHours \div 2
Tick ==
    /\ pc = "idle"
    /\ now + TickHours <= MaxTicks * TickHours
    /\ now' = now + TickHours
    /\ UNCHANGED << model0, threads, file, last_set, available, model, cache, pc, req, providers_to_try, idx, last_error,
                    cur, attempt, prov_out, result, events, invoked, failed, contacted,
                    cache_log, routed, cache0, lastGen, nops >>

----------------------------------------------------------------------------
(* Specification *)

StepNext ==
    \/ CheckCache
    \/ Route
    \/ Attempt
    \/ ProviderSucceeded
    \/ ProviderFailed
    \/ Return
    \/ ProviderReturn

\* A process that serves up to MaxOps calls, with every argument and every
\* backend behaviour
Next ==
    \/ /\ pc = "idle" /\ nops < MaxOps
       /\ \E prompt \in Prompts, name \in ProviderNames, task \in TaskTypes,
             use_cache \in BOOLEAN, fallback \in BOOLEAN :
             GenerateCall(prompt, name, task, use_cache, fallback)
    \/ /\ pc = "idle" /\ nops < MaxOps
       /\ \E p \in Providers, prompt \in Prompts : ProviderCall(p, prompt)
    \/ /\ pc = "backend"
       /\ \E o \in BackendOutcomes(BackendTexts) : Iterate(o)
    \/ StepNext

Spec == Init /\ [][Next]_vars

\* A process that serves up to MaxCacheOps calls while time passes and the
\* cache is also written and cleared directly.  Callers leave the routing to
\* the task type; a backend is rate-limited or hands back a text.
CacheTasks == {"general", "simple"}
CacheSetTexts == {EmptyText, ValidA}
CacheBackendOutcomes ==
    { Outcome("rate_limit", EmptyText) }
        \cup { Outcome("text", t) : t \in {ShortText, ValidA, ValidB} }

InitCache == Init /\ available \in { {}, {"claude", "openai"} }

NextCache ==
    \/ /\ pc = "idle" /\ nops < MaxCacheOps
       /\ \E prompt \in Prompts, task \in CacheTasks,
             use_cache \in BOOLEAN, fallback \in BOOLEAN :
             GenerateCall(prompt, None, task, use_cache, fallback)
    \/ /\ pc = "idle" /\ nops < MaxCacheOps
       /\ \E prompt \in Prompts, task \in CacheTasks, t \in CacheSetTexts :
             CacheSet(prompt, task, t)
    \/ /\ pc = "idle" /\ nops < MaxCacheOps
       /\ ClearCache
    \/ Tick
    \/ /\ pc = "backend"
       /\ \E o \in CacheBackendOutcomes : Iterate(o)
    \/ CheckCache
    \/ Route
    \/ Attempt
    \/ ProviderSucceeded
    \/ ProviderFailed
    \/ Return

SpecCache == InitCache /\ [][NextCache]_vars

\* Provider.generate called once, on every text up to MaxTextLen characters
Alphabet == {" ", "x"}
AllTexts == UNION { [1..n -> Alphabet] : n \in 0..MaxTextLen }

InitValidate == Init /\ available = Providers

NextValidate ==
    \/ /\ pc = "idle" /\ nops = 0
       /\ \E p \in Providers, prompt \in Prompts : ProviderCall(p, prompt)
    \/ /\ pc = "backend"
       /\ \E o \in BackendOutcomes(AllTexts) : Iterate(o)
    \/ ProviderReturn
    \/ Return

SpecValidate == InitValidate /\ [][NextValidate]_vars

\* The cache used directly with keyword parameters in every insertion order
\* and with None among the values
ParamNames == {"max_tokens", "temperature"}
ParamValues == {None, "0"}
KwargsOfLen(n) ==
    { kw \in [1..n -> ParamNames \X ParamValues] :
         \A i, j \in 1..n : i # j => kw[i][1] # kw[j][1] }
AllKwargs == UNION { KwargsOfLen(n) : n \in 0..Cardinality(ParamNames) }
StoreModels == {"general"}
StoreTexts == {EmptyText, ValidA}
StoreMaxAges == {TickHours, MaxAgeHours}

NextKey ==
    \/ /\ pc = "idle" /\ nops < MaxKeyOps
       /\ \E prompt \in Prompts, mdl \in StoreModels, kw \in AllKwargs :
             CacheSetWith(prompt, mdl, ValidA, kw)
    \/ /\ pc = "idle" /\ nops < MaxKeyOps
       /\ \E prompt \in Prompts, mdl \in StoreModels, kw \in AllKwargs :
             CacheGet(prompt, mdl, MaxAgeHours, kw)
    \/ Return

SpecKey == Init /\ [][NextKey]_vars

\* The cache used directly while time passes: up to MaxStoreOps calls of set
\* and get, with and without a keyword parameter
StoreKwargs == { NoKwargs, << << "temperature", "0" >> >> }

NextStore ==
    \/ /\ pc = "idle" /\ nops < MaxStoreOps
       /\ \E prompt \in Prompts, mdl \in StoreModels, t \in StoreTexts, kw \in StoreKwargs :
             CacheSetWith(prompt, mdl, t, kw)
    \/ /\ pc = "idle" /\ nops < MaxStoreOps
       /\ \E prompt \in Prompts, mdl \in StoreModels, h \in StoreMaxAges, kw \in StoreKwargs :
             CacheGet(prompt, mdl, h, kw)
    \/ Tick
    \/ Return

SpecStore == Init /\ [][NextStore]_vars

\* A process that serves up to MaxRouteOps calls one after the other, with
\* every provider name and task type, the cache disabled; a backend hands back
\* a text or fails
RouteBackendOutcomes == { Outcome("api_error", EmptyText), Outcome("text", ValidA) }

NextRoute ==
    \/ /\ pc = "idle" /\ nops < MaxRouteOps
       /\ \E prompt \in Prompts, name \in ProviderNames, task \in TaskTypes,
             fallback \in BOOLEAN :
             GenerateCall(prompt, name, task, FALSE, fallback)
    \/ /\ pc = "backend"
       /\ \E o \in RouteBackendOutcomes : Iterate(o)
    \/ CheckCache
    \/ Route
    \/ Attempt
    \/ ProviderSucceeded
    \/ ProviderFailed
    \/ Return

SpecRoute == Init /\ [][NextRoute]_vars

----------------------------------------------------------------------------
(* Concurrent callers of one LLMCache on one key: the file of that key *)

\* the text of an entry in its file: json.dump(cache_data, f); prompt, model
\* and parameters are the same in every entry of the one path and left out
TimeToken(h) == ToString(h)
TimeTokens == { TimeToken(k * TickHours) : k \in 0..MaxTicks }
TextChars == {" ", "x", "y"}
json_dump(e) == << "{" >> \o e.response \o << TimeToken(e.cached_at) >> \o << "}" >>

\* json.load(f): the whole file is read; text that is not one complete
\* document raises
json_load(d) ==
    IF /\ Len(d) >= 3
       /\ d[1] = "{" /\ d[Len(d)] = "}"
       /\ d[Len(d) - 1] \in TimeTokens
       /\ \A i \in 2..(Len(d) - 2) : d[i] \in TextChars
    THEN [ok |-> TRUE, response |-> SubSeq(d, 2, Len(d) - 2),
          cached_at |-> CHOOSE h \in { k * TickHours : k \in 0..MaxTicks } :
                            TimeToken(h) = d[Len(d) - 1]]
    ELSE [ok |-> FALSE, response |-> EmptyText, cached_at |-> 0]

\* write(chunk) at offset off of a file whose content is d: what lies beyond
\* the chunk stays, a gap before it reads as NUL
WriteAt(d, off, chunk) ==
    LET n == IF Len(d) > off + Len(chunk) THEN Len(d) ELSE off + Len(chunk) IN
    [i \in 1..n |-> IF i > off /\ i <= off + Len(chunk) THEN chunk[i - off]
                    ELSE IF i <= Len(d) THEN d[i] ELSE "NUL"]

\* each thread has its own response to store
ThreadText(t) == IF t = "t1" THEN ValidA ELSE ValidB

\* the complete entry the file holds, if it holds one
Held == IF file.exists /\ json_load(file.data).ok
        THEN SomeText(json_load(file.data).response) ELSE NoText

CanStart(t) == threads[t].pc \in {"idle", "done"} /\ threads[t].n < MaxThreadOps

Sequential ==
    UNCHANGED << available, cache, now, pc, req, providers_to_try, idx, last_error, cur,
                 attempt, prov_out, result, events, invoked, failed, contacted, cache_log,
                 routed, cache0, lastGen, nops, last_set, model0 >>

\* thread t enters LLMCache.get
TCacheGet(t) ==
    /\ CanStart(t)
    /\ threads' = [threads EXCEPT ![t] =
          [@ EXCEPT !.pc = "exists", !.op = "get", !.n = @ + 1, !.hit = FALSE,
                    !.response = EmptyText, !.had = Held]]
    /\ UNCHANGED << file, model >>
    /\ Sequential

\* thread t enters LLMCache.set with its response
TCacheSet(t) ==
    /\ CanStart(t)
    /\ threads' = [threads EXCEPT ![t] =
          [@ EXCEPT !.pc = "open", !.op = "set", !.n = @ + 1, !.text = ThreadText(t),
                    !.hit = FALSE, !.response = EmptyText]]
    /\ UNCHANGED << file, model >>
    /\ Sequential

\* thread t enters LLMManager.generate with the cache enabled: its first step
\* is llm_cache.get
TGenerate(t) ==
    /\ CanStart(t)
    /\ threads' = [threads EXCEPT ![t] =
          [@ EXCEPT !.pc = "exists", !.op = "generate", !.n = @ + 1,
                    !.text = ThreadText(t), !.hit = FALSE, !.response = EmptyText,
                    !.had = Held]]
    /\ UNCHANGED << file, model >>
    /\ Sequential

\* after a miss: get returns None; generate has its provider produce the
\* thread's text and goes on to llm_cache.set
AfterMiss(t) == IF threads[t].op = "get" THEN "done" ELSE "open"

\* LLMCache.get: "if not cache_path.exists(): return None"
TExists(t) ==
    /\ threads[t].pc = "exists"
    /\ threads' = [threads EXCEPT ![t].pc = IF file.exists THEN "read" ELSE AfterMiss(t)]
    /\ UNCHANGED << file, model >>
    /\ Sequential

\* LLMCache.get: open, json.load, the expiry check and, for an entry that
\* is not expired, the return; every exception is caught and None returned
TRead(t) ==
    /\ threads[t].pc = "read"
    /\ LET e == json_load(file.data) IN
       IF ~file.exists \/ ~e.ok
       THEN /\ threads' = [threads EXCEPT ![t].pc = AfterMiss(t)]
            /\ file' = file
       ELSE IF now - e.cached_at > MaxAgeHours
            THEN /\ threads' = [threads EXCEPT ![t].pc = "unlink"]
                 /\ file' = file
            ELSE /\ threads' = [threads EXCEPT ![t] =
                       [@ EXCEPT !.hit = TRUE, !.response = e.response,
                                 !.pc = IF threads[t].op = "generate"
                                           /\ e.response = EmptyText
                                        THEN "open" ELSE "done"]]
                 /\ file' = file
    /\ UNCHANGED model
    /\ Sequential

\* LLMCache.get, the entry read was expired: cache_path.unlink() removes
\* whatever file the path names now, and None is returned; with no file there
\* unlink raises, which is caught, and None is returned
TUnlink(t) ==
    /\ threads[t].pc = "unlink"
    /\ threads' = [threads EXCEPT ![t].pc = AfterMiss(t)]
    /\ file' = IF file.exists THEN [file EXCEPT !.exists = FALSE, !.data = << >>] ELSE file
    /\ UNCHANGED << model, now >>
    /\ UNCHANGED << available, cache, pc, req, providers_to_try, idx, last_error, cur,
                    attempt, prov_out, result, events, invoked, failed, contacted,
                    cache_log, routed, cache0, lastGen, nops, last_set, model0 >>

\* LLMCache.set: cache_data is built, then open(cache_path, "w") creates the
\* file or truncates it
TOpen(t) ==
    /\ threads[t].pc = "open"
    /\ threads' = [threads EXCEPT ![t] =
          [@ EXCEPT !.pc = "write", !.off = 0,
                    !.buf = json_dump(Entry(None, None, threads[t].text, now, NoKwargs))]]
    /\ file' = [file EXCEPT !.exists = TRUE, !.data = << >>]
    /\ UNCHANGED model
    /\ Sequential

\* LLMCache.set: the file object writes the next WriteBufferLen characters at
\* its offset; after the last of them the file is closed and set returns
TWrite(t) ==
    /\ threads[t].pc = "write"
    /\ LET k == IF Len(threads[t].buf) < WriteBufferLen THEN Len(threads[t].buf)
                ELSE WriteBufferLen
           chunk == SubSeq(threads[t].buf, 1, k)
           rest == SubSeq(threads[t].buf, k + 1, Len(threads[t].buf))
       IN
       /\ file' = [file EXCEPT !.data = WriteAt(file.data, threads[t].off, chunk),
                               !.committed = IF rest = << >> THEN SomeText(threads[t].text)
                                             ELSE @,
                               !.at = IF rest = << >> THEN now ELSE @]
       /\ threads' = [threads EXCEPT ![t] =
             [@ EXCEPT !.buf = rest, !.off = @ + k,
                       !.pc = IF rest = << >> THEN "done" ELSE "write",
                       !.sets = IF rest = << >> THEN @ + 1 ELSE @]]
    /\ UNCHANGED model
    /\ Sequential

NextFiles ==
    \/ \E t \in Threads : TCacheGet(t)
    \/ \E t \in Threads : TCacheSet(t)
    \/ \E t \in Threads : TGenerate(t)
    \/ \E t \in Threads : TExists(t)
    \/ \E t \in Threads : TRead(t)
    \/ \E t \in Threads : TOpen(t)
    \/ \E t \in Threads : TWrite(t)

\* time passes while no call is running
TTick ==
    /\ \A t \in Threads : threads[t].pc \in {"idle", "done"}
    /\ now + TickHours <= MaxTicks * TickHours
    /\ now' = now + TickHours
    /\ UNCHANGED << threads, file, model >>
    /\ UNCHANGED << available, cache, pc, req, providers_to_try, idx, last_error, cur,
                    attempt, prov_out, result, events, invoked, failed, contacted,
                    cache_log, routed, cache0, lastGen, nops, last_set, model0 >>

\* one thread calls LLMCache.get and the other LLMCache.set on the same key,
\* over the hours
NextExpiry ==
    \/ TCacheGet("t1")
    \/ TCacheSet("t2")
    \/ \E t \in Threads : TExists(t)
    \/ \E t \in Threads : TRead(t)
    \/ \E t \in Threads : TUnlink(t)
    \/ \E t \in Threads : TOpen(t)
    \/ \E t \in Threads : TWrite(t)
    \/ TTick

\* providers play no part here
InitThreads == Init /\ available = Providers

SpecFiles == InitThreads /\ [][NextFiles]_vars
SpecExpiry == InitThreads /\ [][NextExpiry]_vars

----------------------------------------------------------------------------
(* Concurrent callers of the one LLMManager: the providers' model attribute *)

\* "llm_manager = LLMManager()": every caller goes through the same provider
\* objects; the requests are generate(prompt, task_type=task, use_cache=False,
\* fallback=False)
ThreadTasks == {"simple", "script_generation"}
ThreadBackendOutcomes(t) == { Outcome("rate_limit", EmptyText), Outcome("text", ThreadText(t)) }

SequentialFile ==
    UNCHANGED << available, cache, now, pc, req, providers_to_try, idx, last_error, cur,
                 attempt, prov_out, result, events, invoked, failed, contacted, cache_log,
                 routed, cache0, lastGen, nops, last_set, model0, file >>

\* thread t enters LLMManager.generate
TRequest(t, task) ==
    /\ CanStart(t)
    /\ threads' = [threads EXCEPT ![t] =
          [@ EXCEPT !.pc = "route", !.op = "request", !.n = @ + 1, !.task = task,
                    !.provider = None, !.selected = None, !.used = None,
                    !.calls = 0, !.attempt = 0, !.response = EmptyText]]
    /\ UNCHANGED model
    /\ SequentialFile

\* "provider = self.get_provider(provider_name, task_type)": the branch of
\* the task assigns provider.model on the shared object
TRoute(t) ==
    /\ threads[t].pc = "route"
    /\ LET r == get_provider(available, model, None, threads[t].task) IN
       /\ model' = r.model
       /\ threads' = [threads EXCEPT ![t] =
             [@ EXCEPT !.provider = r.provider,
                       !.selected = IF r.provider = None THEN None ELSE r.model[r.provider],
                       !.pc = IF r.provider = None THEN "done" ELSE "backend"]]
    /\ SequentialFile

\* one iteration of the provider's retry loop: the backend is called with
\* "model=self.model", the attribute as it is at that moment; a rate limit
\* short of the last attempt sleeps and goes round again
TBackend(t, o) ==
    /\ threads[t].pc = "backend"
    /\ LET st == iteration(threads[t].provider, threads[t].attempt, o) IN
       threads' = [threads EXCEPT ![t] =
          [@ EXCEPT !.used = model[threads[t].provider],
                    !.calls = @ + 1,
                    !.attempt = IF st.next = "retry" THEN @ + 1 ELSE @,
                    !.response = st.text,
                    !.pc = IF st.next = "retry" /\ threads[t].attempt + 1 < max_retries
                           THEN "backend" ELSE "done"]]
    /\ UNCHANGED model
    /\ SequentialFile

NextModels ==
    \/ \E t \in Threads, task \in ThreadTasks : TRequest(t, task)
    \/ \E t \in Threads : TRoute(t)
    \/ \E t \in Threads : \E o \in ThreadBackendOutcomes(t) : TBackend(t, o)

SpecModels == InitThreads /\ [][NextModels]_vars

----------------------------------------------------------------------------
(* Maintenance of the cache directory: clear_expired, clear_all, get_cache_stats *)

\* calls per behaviour when the cache directory is maintained
MaxMaintOps == 4

\* f.stat().st_size of the file of an entry, in characters
st_size(e) == IF Readable(e) THEN Len(json_dump(e)) ELSE Len(e.data)

RECURSIVE SumSizes(_, _)
SumSizes(c, ks) ==
    IF ks = {} THEN 0
    ELSE LET k == CHOOSE x \in ks : TRUE IN st_size(c[k]) + SumSizes(c, ks \ {k})

\* round(total_size / (1024 * 1024), 2), in hundredths of a megabyte
total_size_mb(total_size) == (total_size * 100 + 524288) \div 1048576

clear_expired_at_cutoff(c, t, max_age_hours) ==
    LET cutoff_time == t - max_age_hours
        gone == { k \in DOMAIN c : Readable(c[k]) /\ c[k].cached_at <= cutoff_time }
    IN [cache |-> [k \in DOMAIN c \ gone |-> c[k]], cleared_count |-> Cardinality(gone)]

\* LLMCache.clear_expired: the store afterwards and the count returned; a file
\* that cannot be read raises inside the try and is passed over
clear_expired(c, t, max_age_hours) ==
    LET cutoff_time == t - max_age_hours
        gone == { k \in DOMAIN c : Readable(c[k]) /\ c[k].cached_at < cutoff_time }
    IN [cache |-> [k \in DOMAIN c \ gone |-> c[k]], cleared_count |-> Cardinality(gone)]

clear_all_readable_only(c) ==
    LET gone == { k \in DOMAIN c : Readable(c[k]) }
    IN [cache |-> [k \in DOMAIN c \ gone |-> c[k]], cleared_count |-> Cardinality(gone)]

\* LLMCache.clear_all: every *.json file is unlinked and counted
clear_all(c) == [cache |-> << >>, cleared_count |-> Cardinality(DOMAIN c)]

\* oldest_time, newest_time: None or a datetime
NoTime == [some |-> FALSE, at |-> 0]
Time(h) == [some |-> TRUE, at |-> h]

\* the loop of get_cache_stats over the files ks still to visit: oldest_time
\* and newest_time (None until a file has been read)
RECURSIVE OldestNewest(_, _, _, _)
OldestNewest(c, ks, oldest_time, newest_time) ==
    IF ks = {} THEN << oldest_time, newest_time >>
    ELSE LET k == CHOOSE x \in ks : TRUE
             rest == ks \ {k}
         IN IF ~Readable(c[k]) THEN OldestNewest(c, rest, oldest_time, newest_time)
            ELSE LET cached_at == c[k].cached_at IN
                 OldestNewest(c, rest,
                    IF ~oldest_time.some \/ cached_at < oldest_time.at
                    THEN Time(cached_at) ELSE oldest_time,
                    IF ~newest_time.some \/ cached_at > newest_time.at
                    THEN Time(cached_at) ELSE newest_time)

\* LLMCache.get_cache_stats
get_cache_stats(c) ==
    LET total_files == Cardinality(DOMAIN c) IN
    IF total_files = 0
    THEN [total_entries |-> 0, total_size_mb |-> 0, oldest_entry |-> NoTime,
          newest_entry |-> NoTime]
    ELSE LET on == OldestNewest(c, DOMAIN c, NoTime, NoTime) IN
         [total_entries |-> total_files,
          total_size_mb |-> total_size_mb(SumSizes(c, DOMAIN c)),
          oldest_entry |-> on[1], newest_entry |-> on[2]]

\* a maintenance call has returned value v
Value(v) == [kind |-> "returned", text |-> EmptyText, source |-> None,
             error |-> "none", last |-> NoError, value |-> v]

\* a maintenance call op, as one step: the store and the value it leaves
MaintCall(op, max_age_hours, c, v) ==
    /\ pc = "idle"
    /\ nops' = nops + 1
    /\ req' = [op |-> op, prompt |-> None, provider_name |-> None, task_type |-> None,
               use_cache |-> TRUE, fallback |-> FALSE, max_age_hours |-> max_age_hours]
    /\ cache0' = cache
    /\ cache' = c
    /\ result' = Value(v)
    /\ last_set' = [r \in { x \in DOMAIN last_set :
                              generate_cache_key(x.prompt, x.model, NoKwargs) \in DOMAIN c
                              \/ x.params # {} } |-> last_set[r]]
    /\ lastGen' = IF lastGen.valid /\ lastGen.key \notin DOMAIN c THEN NoGen ELSE lastGen
    /\ pc' = "done"
    /\ model0' = model
    /\ providers_to_try' = << >>
    /\ idx' = 0
    /\ last_error' = NoError
    /\ cur' = None
    /\ attempt' = 0
    /\ prov_out' = NoOut
    /\ events' = << >>
    /\ invoked' = << >>
    /\ failed' = << >>
    /\ contacted' = {}
    /\ cache_log' = << >>
    /\ routed' = FALSE
    /\ UNCHANGED << threads, file, available, model, now >>

\* llm_cache.clear_expired(max_age_hours)
ClearExpired(max_age_hours) ==
    LET r == clear_expired(cache, now, max_age_hours) IN
    MaintCall("clear_expired", max_age_hours, r.cache, r.cleared_count)

\* llm_manager.clear_cache() -> llm_cache.clear_all()
ClearAll ==
    LET r == clear_all(cache) IN MaintCall("clear_all", 0, r.cache, r.cleared_count)

\* llm_manager.get_cache_stats() -> llm_cache.get_cache_stats()
GetCacheStats == MaintCall("get_cache_stats", 0, cache, get_cache_stats(cache))

\* the file of an entry stops being a readable document (a writer was cut
\* short, or two writers overlapped)
DamageEntry(key) ==
    /\ pc = "idle"
    /\ key \in DOMAIN cache
    /\ Readable(cache[key])
    /\ cache' = With(cache, key, Damaged)
    /\ lastGen' = IF lastGen.valid /\ lastGen.key = key THEN NoGen ELSE lastGen
    /\ last_set' = [r \in { x \in DOMAIN last_set :
                              generate_cache_key(x.prompt, x.model, NoKwargs) # key } |->
                        last_set[r]]
    /\ UNCHANGED << model0, threads, file, available, model, now, pc, req, providers_to_try,
                    idx, last_error, cur, attempt, prov_out, result, events, invoked,
                    failed, contacted, cache_log, routed, cache0, nops >>

\* the entries are those of one prompt under three model names
MaintTasks == {"general", "simple", "refinement"}
MaintKeys == { generate_cache_key(prompt, mdl, NoKwargs) : prompt \in Prompts, mdl \in MaintTasks }

NextMaint ==
    \/ /\ pc = "idle" /\ nops < MaxMaintOps
       /\ \E prompt \in Prompts, mdl \in MaintTasks : CacheSet(prompt, mdl, ValidA)
    \/ /\ pc = "idle" /\ nops < MaxMaintOps
       /\ \E h \in StoreMaxAges : ClearExpired(h)
    \/ /\ pc = "idle" /\ nops < MaxMaintOps
       /\ ClearAll
    \/ /\ pc = "idle" /\ nops < MaxMaintOps
       /\ GetCacheStats
    \/ /\ pc = "idle" /\ nops < MaxMaintOps
       /\ \E prompt \in Prompts, mdl \in MaintTasks, h \in StoreMaxAges :
             CacheGet(prompt, mdl, h, NoKwargs)
    \/ \E key \in MaintKeys : DamageEntry(key)
    \/ Tick
    \/ Return

\* the providers play no part
InitMaint == Init /\ available = {}

SpecMaint == InitMaint /\ [][NextMaint]_vars

----------------------------------------------------------------------------
(* LLMManager.generate_with_json_parsing *)

\* calls per behaviour when responses are parsed
MaxJsonOps == 2
\* longest text enumerated as a cached response
MaxJsonLen == 4
\* response[:200]
PrefixLen == 200

Quote == "\""
Digits == {"1", "2", "3"}

\* the values json.loads builds: int, str, list, dict
NoValue == [t |-> "none"]
Number(d) == [t |-> "number", digits |-> d]
String(c) == [t |-> "string", chars |-> c]
Array(items) == [t |-> "array", items |-> items]
Object(members) == [t |-> "object", members |-> members]

\* a scanner's result: whether it matched, the value, the index after it
NoMatch == [ok |-> FALSE, val |-> NoValue, next |-> 0]
Match(v, n) == [ok |-> TRUE, val |-> v, next |-> n]

\* json.decoder: WHITESPACE.match(s, i).end()
RECURSIVE SkipWs(_, _)
SkipWs(s, i) == IF i <= Len(s) /\ s[i] \in Whitespace THEN SkipWs(s, i + 1) ELSE i

\* json.scanner: NUMBER_RE on a run of digits
RECURSIVE DigitsEnd(_, _)
DigitsEnd(s, i) == IF i <= Len(s) /\ s[i] \in Digits THEN DigitsEnd(s, i + 1) ELSE i
ParseNumber(s, i) == Match(Number(SubSeq(s, i, DigitsEnd(s, i) - 1)), DigitsEnd(s, i))

\* json.decoder.scanstring from the opening quote at i: up to the next quote
ParseString(s, i) ==
    LET closing == { j \in (i + 1)..Len(s) : s[j] = Quote } IN
    IF closing = {} THEN NoMatch
    ELSE LET j == CHOOSE x \in closing : \A y \in closing : x <= y IN
         Match(String(SubSeq(s, i + 1, j - 1)), j + 1)

\* json.scanner.scan_once at index i, with JSONArray and JSONObject
RECURSIVE ParseValue(_, _)
RECURSIVE ParseElements(_, _, _)
RECURSIVE ParseMembers(_, _, _)
ParseValue(s, i) ==
    IF i > Len(s) THEN NoMatch
    ELSE CASE s[i] = "[" ->
                LET j == SkipWs(s, i + 1) IN
                IF j <= Len(s) /\ s[j] = "]" THEN Match(Array(<< >>), j + 1)
                ELSE ParseElements(s, j, << >>)
           [] s[i] = "{" ->
                LET j == SkipWs(s, i + 1) IN
                IF j <= Len(s) /\ s[j] = "}" THEN Match(Object(<< >>), j + 1)
                ELSE ParseMembers(s, j, << >>)
           [] s[i] = Quote -> ParseString(s, i)
           [] s[i] \in Digits -> ParseNumber(s, i)
           [] OTHER -> NoMatch

\* JSONArray: a value, then "," and the next value, or "]"
ParseElements(s, i, acc) ==
    LET v == ParseValue(s, i) IN
    IF ~v.ok THEN NoMatch
    ELSE LET k == SkipWs(s, v.next) IN
         IF k > Len(s) THEN NoMatch
         ELSE IF s[k] = "," THEN ParseElements(s, SkipWs(s, k + 1), Append(acc, v.val))
         ELSE IF s[k] = "]" THEN Match(Array(Append(acc, v.val)), k + 1)
         ELSE NoMatch

\* JSONObject: a string, ":", a value, then "," and the next member, or "}";
\* a name that comes again replaces the value
ParseMembers(s, i, acc) ==
    IF i > Len(s) \/ s[i] # Quote THEN NoMatch
    ELSE LET key == ParseString(s, i) IN
         IF ~key.ok THEN NoMatch
         ELSE LET c == SkipWs(s, key.next) IN
              IF c > Len(s) \/ s[c] # ":" THEN NoMatch
              ELSE LET v == ParseValue(s, SkipWs(s, c + 1)) IN
                   IF ~v.ok THEN NoMatch
                   ELSE LET k == SkipWs(s, v.next)
                            members == With(acc, key.val.chars, v.val)
                        IN IF k > Len(s) THEN NoMatch
                           ELSE IF s[k] = "," THEN ParseMembers(s, SkipWs(s, k + 1), members)
                           ELSE IF s[k] = "}" THEN Match(Object(members), k + 1)
                           ELSE NoMatch

\* json.loads(s): one value between optional whitespace and nothing else;
\* ok = FALSE for JSONDecodeError
json_loads(s) ==
    LET v == ParseValue(s, SkipWs(s, 1)) IN
    IF v.ok /\ SkipWs(s, v.next) = Len(s) + 1 THEN v ELSE NoMatch

NoSpan == [found |-> FALSE, group |-> << >>]

re_search_lazy(open, close, s) ==
    LET starts == { i \in DOMAIN s : s[i] = open /\ \E j \in (i + 1)..Len(s) : s[j] = close } IN
    IF starts = {} THEN NoSpan
    ELSE LET i == CHOOSE x \in starts : \A y \in starts : x <= y
             ends == { j \in (i + 1)..Len(s) : s[j] = close }
             j == CHOOSE x \in ends : \A y \in ends : x <= y
         IN [found |-> TRUE, group |-> SubSeq(s, i, j)]

\* re.search(r'\{.*\}', s, re.DOTALL) and re.search(r'\[.*\]', s, re.DOTALL):
\* the leftmost position at which the pattern matches, and from there the
\* longest match
re_search(open, close, s) ==
    LET starts == { i \in DOMAIN s : s[i] = open /\ \E j \in (i + 1)..Len(s) : s[j] = close } IN
    IF starts = {} THEN NoSpan
    ELSE LET i == CHOOSE x \in starts : \A y \in starts : x <= y
             ends == { j \in (i + 1)..Len(s) : s[j] = close }
             j == CHOOSE x \in ends : \A y \in ends : y <= x
         IN [found |-> TRUE, group |-> SubSeq(s, i, j)]

error_prefix_whole(response) == response

\* response[:200]
error_prefix(response) ==
    SubSeq(response, 1, IF Len(response) < PrefixLen THEN Len(response) ELSE PrefixLen)

\* how generate_with_json_parsing ends on the text that generate returned
Parsed(response, v) ==
    [kind |-> "returned", text |-> response, source |-> None, error |-> "none",
     last |-> NoError, value |-> v, quoted |-> << >>]
ParseError(response) ==
    [kind |-> "raised", text |-> response, source |-> None, error |-> "parse_error",
     last |-> NoError, value |-> NoValue, quoted |-> error_prefix(response)]

shrinking_search(open, close, s) ==
    LET m == re_search(open, close, s)
        i == CHOOSE x \in DOMAIN s : s[x] = open /\ \A y \in 1..(x - 1) : s[y] # open
        ends == { j \in (i + 1)..Len(s) : s[j] = close /\ json_loads(SubSeq(s, i, j)).ok }
    IN IF ~m.found \/ ends = {} THEN m
       ELSE [found |-> TRUE,
             group |-> SubSeq(s, i, CHOOSE x \in ends : \A y \in ends : y <= x)]

parse_response_shrinking(response) ==
    LET direct == json_loads(response) IN
    IF direct.ok THEN Parsed(response, direct.val)
    ELSE LET json_match == shrinking_search("{", "}", response)
             object == IF json_match.found THEN json_loads(json_match.group) ELSE NoMatch
         IN IF object.ok THEN Parsed(response, object.val)
            ELSE LET array_match == shrinking_search("[", "]", response)
                     array == IF array_match.found THEN json_loads(array_match.group)
                              ELSE NoMatch
                 IN IF array.ok THEN Parsed(response, array.val)
                    ELSE ParseError(response)

\* generate_with_json_parsing after "response = self.generate(...)"
parse_response(response) ==
    LET direct == json_loads(response) IN
    IF direct.ok THEN Parsed(response, direct.val)
    ELSE LET json_match == re_search("{", "}", response)
             object == IF json_match.found THEN json_loads(json_match.group) ELSE NoMatch
         IN IF object.ok THEN Parsed(response, object.val)
            ELSE LET array_match == re_search("[", "]", response)
                     array == IF array_match.found THEN json_loads(array_match.group)
                              ELSE NoMatch
                 IN IF array.ok THEN Parsed(response, array.val)
                    ELSE ParseError(response)

\* self.generate has returned or raised: the response is parsed, an exception
\* of generate goes on to the caller
ParseJson ==
    /\ pc = "done"
    /\ req.op = "generate"
    /\ result' = IF result.kind = "returned" THEN parse_response(result.text) ELSE result
    /\ pc' = "parsed"
    /\ UNCHANGED << model0, threads, file, last_set, available, model, cache, now, req,
                    providers_to_try, idx, last_error, cur, attempt, prov_out, events,
                    invoked, failed, contacted, cache_log, routed, cache0, lastGen, nops >>

\* the caller takes the value or the exception
ReturnJson ==
    /\ pc = "parsed"
    /\ model0' = model
    /\ pc' = "idle"
    /\ req' = NoReq
    /\ cache0' = << >>
    /\ FreshLocals
    /\ UNCHANGED << threads, file, last_set, available, model, cache, now, lastGen, nops >>

\* responses that callers and backends supply
\* Sure! {"a":1} thanks
TextSure ==
    << "S", "u", "r", "e", "!", " ", "{", "\"", "a", "\"", ":", "1", "}", " ", "t",
       "h", "a", "n", "k", "s" >>
\* no json here
TextNoJson ==
    << "n", "o", " ", "j", "s", "o", "n", " ", "h", "e", "r", "e" >>
\* [1,2,3]
TextArray ==
    << "[", "1", ",", "2", ",", "3", "]" >>
\* {"a": [1,2,3]}
TextObject ==
    << "{", "\"", "a", "\"", ":", " ", "[", "1", ",", "2", ",", "3", "]", "}" >>
\* x [{"a":1}] x
TextInnerObject ==
    << "x", " ", "[", "{", "\"", "a", "\"", ":", "1", "}", "]", " ", "x" >>
\* see [1,2,3] ok
TextProseArray ==
    << "s", "e", "e", " ", "[", "1", ",", "2", ",", "3", "]", " ", "o", "k" >>
\* {"a":1} and {"a":2}
TextTwoObjects ==
    << "{", "\"", "a", "\"", ":", "1", "}", " ", "a", "n", "d", " ", "{", "\"", "a",
       "\"", ":", "2", "}" >>
\* {x} [1,2,3] ok
TextBraceThenArray ==
    << "{", "x", "}", " ", "[", "1", ",", "2", ",", "3", "]", " ", "o", "k" >>
\* 1231231231
TextNumber ==
    << "1", "2", "3", "1", "2", "3", "1", "2", "3", "1" >>
\* "aaa {1} aaa"
TextString ==
    << "\"", "a", "a", "a", " ", "{", "1", "}", " ", "a", "a", "a", "\"" >>
\* ok {"a":{"a":1}} ok
TextNested ==
    << "o", "k", " ", "{", "\"", "a", "\"", ":", "{", "\"", "a", "\"", ":", "1", "}", "}", " ", "o", "k" >>
\* {"a":1} ok :-}
TextObjectThenBrace ==
    << "{", "\"", "a", "\"", ":", "1", "}", " ", "o", "k", " ", ":", "-", "}" >>
\* more than 200 characters without JSON
TextLong == << "n", "o", " " >> \o [i \in 1..PrefixLen |-> "x"]

LongTexts ==
    { TextSure, TextNoJson, TextObject, TextInnerObject, TextProseArray, TextTwoObjects,
      TextBraceThenArray, TextNumber, TextString, TextNested,
      TextObjectThenBrace, TextLong }
JsonAlphabet == {"{", "}", "[", "]", "1", ",", "x"}
ShortTexts == UNION { [1..n -> JsonAlphabet] : n \in 0..MaxJsonLen }
\* what llm_cache.set may have stored, and what a backend may hand back
JsonCacheTexts == ShortTexts \cup {TextArray, TextTwoObjects}
JsonBackendOutcomes ==
    { Outcome("api_error", EmptyText), Outcome("text", TextArray) }
        \cup { Outcome("text", t) : t \in LongTexts }

\* one provider is configured
InitJson == Init /\ available = {"claude"}

\* generate_with_json_parsing(prompt, task_type) is called with the defaults
\* of generate (cache and fallback enabled), possibly after a llm_cache.set
NextJson ==
    \/ /\ pc = "idle" /\ nops = 0
       /\ \E prompt \in Prompts, t \in JsonCacheTexts : CacheSet(prompt, "general", t)
    \/ /\ pc = "idle" /\ nops < MaxJsonOps
       /\ \E prompt \in Prompts : GenerateCall(prompt, None, "general", TRUE, TRUE)
    \/ /\ pc = "backend"
       /\ \E o \in JsonBackendOutcomes : Iterate(o)
    \/ CheckCache
    \/ Route
    \/ Attempt
    \/ ProviderSucceeded
    \/ ProviderFailed
    \/ ParseJson
    \/ ReturnJson

SpecJson == InitJson /\ [][NextJson]_vars

----------------------------------------------------------------------------
(* Cost estimation: <Provider>.get_cost *)

\* calls per behaviour when costs are estimated
MaxCostOps == 2

\* token counts that callers and backends name
TokenCounts == {0, 1, 50000, 100000}
\* the models a provider can be constructed with
ModelNames(p) == DOMAIN PRICING(p) \cup {UnknownModel}

\* <Provider>(model=m): "self.model = model"
SetModel(p, m) ==
    /\ pc = "idle"
    /\ model' = [model EXCEPT ![p] = m]
    /\ model0' = model'
    /\ UNCHANGED << threads, file, last_set, available, cache, now, pc, req,
                    providers_to_try, idx, last_error, cur, attempt, prov_out, result,
                    events, invoked, failed, contacted, cache_log, routed, cache0,
                    lastGen, nops >>

\* what a call of get_cost leaves with its caller
CostValue(c) ==
    [kind |-> IF c.ok THEN "returned" ELSE "raised", text |-> EmptyText, source |-> None,
     error |-> IF c.ok THEN "none" ELSE "unexpected", last |-> NoError,
     value |-> c.cost, warned |-> c.warned]

\* a caller calls <Provider>.get_cost(input_tokens, output_tokens) of provider p
GetCost(p, input_tokens, output_tokens) ==
    /\ pc = "idle"
    /\ nops' = nops + 1
    /\ req' = [op |-> "get_cost", prompt |-> None, provider_name |-> p, task_type |-> None,
               use_cache |-> FALSE, fallback |-> FALSE,
               input_tokens |-> input_tokens, output_tokens |-> output_tokens]
    /\ result' = CostValue(get_cost(p, model[p], input_tokens, output_tokens))
    /\ pc' = "done"
    /\ model0' = model
    /\ cache0' = cache
    /\ providers_to_try' = << >>
    /\ idx' = 0
    /\ last_error' = NoError
    /\ cur' = p
    /\ attempt' = 0
    /\ prov_out' = NoOut
    /\ events' = << >>
    /\ invoked' = << >>
    /\ failed' = << >>
    /\ contacted' = {}
    /\ cache_log' = << >>
    /\ routed' = FALSE
    /\ UNCHANGED << threads, file, last_set, available, model, cache, now, lastGen >>

\* a backend answer with its usage
Usage(t, input_tokens, output_tokens) ==
    [kind |-> "text", text |-> t, input_tokens |-> input_tokens,
     output_tokens |-> output_tokens]
CostBackendOutcomes ==
    { Outcome("rate_limit", EmptyText), Outcome("api_error", EmptyText),
      Outcome("text", ShortText) }
        \cup { Usage(ValidA, i, o) : i \in TokenCounts, o \in TokenCounts }

InitCost == Init /\ available = Providers

\* providers constructed with any model, get_cost and generate called on them
NextCost ==
    \/ /\ nops = 0 /\ model = DefaultModels
       /\ \E p \in Providers : \E m \in ModelNames(p) : SetModel(p, m)
    \/ /\ nops < MaxCostOps
       /\ \E p \in Providers, i \in TokenCounts, o \in TokenCounts : GetCost(p, i, o)
    \/ /\ pc = "idle" /\ nops < MaxCostOps
       /\ \E p \in Providers, prompt \in Prompts : ProviderCall(p, prompt)
    \/ /\ pc = "backend"
       /\ \E o \in CostBackendOutcomes : Iterate(o)
    \/ ProviderReturn
    \/ Return

SpecCost == InitCost /\ [][NextCost]_vars

----------------------------------------------------------------------------
(* generate_with_json_parsing over time, with the cache *)

\* calls per behaviour when parsed responses meet the cache
MaxJsonCacheOps == 3

JsonCacheTasks == {"general", "simple"}
JsonCacheBackendOutcomes ==
    { Outcome("api_error", EmptyText), Outcome("text", TextNoJson),
      Outcome("text", TextObjectThenBrace), Outcome("text", TextSure) }

\* generate_with_json_parsing(prompt, task_type, use_cache=...) called again
\* and again while time passes and the cache is cleared
NextJsonCache ==
    \/ /\ pc = "idle" /\ nops < MaxJsonCacheOps
       /\ \E prompt \in Prompts, task \in JsonCacheTasks, use_cache \in BOOLEAN :
             GenerateCall(prompt, None, task, use_cache, TRUE)
    \/ /\ pc = "idle" /\ nops < MaxJsonCacheOps
       /\ ClearCache
    \/ Tick
    \/ /\ pc = "backend"
       /\ \E o \in JsonCacheBackendOutcomes : Iterate(o)
    \/ CheckCache
    \/ Route
    \/ Attempt
    \/ ProviderSucceeded
    \/ ProviderFailed
    \/ ParseJson
    \/ ReturnJson

SpecJsonCache == InitJson /\ [][NextJsonCache]_vars

----------------------------------------------------------------------------
(* LLMManager.generate with every parameter of a request *)

\* calls per behaviour when requests name all their parameters
MaxParamOps == 2

\* the values callers give: max_tokens, temperature, system, stop_sequences
MaxTokensValues == {"2000", "100"}
TemperatureValues == {"0.7", "0.0"}
SystemValues == {None, "be brief"}
StopValues == {None, "END"}
Overrides == {None, "claude", "OpenAI"}

\* a caller enters LLMManager.generate(prompt, provider_name, task_type,
\* use_cache, max_tokens, temperature, fallback, system=..., stop_sequences=...)
GenerateCallWith(prompt, provider_name, task_type, use_cache, fallback, max_tokens, temperature, system, stop_sequences) ==
    /\ pc = "idle"
    /\ model0' = model
    /\ nops' = nops + 1
    /\ req' = [op |-> "generate", prompt |-> prompt, provider_name |-> provider_name,
               task_type |-> task_type, use_cache |-> use_cache, fallback |-> fallback,
               max_tokens |-> max_tokens, temperature |-> temperature,
               system |-> system, stop_sequences |-> stop_sequences,
               kwargs |-> << << "max_tokens", max_tokens >>,
                             << "temperature", temperature >> >>]
    /\ pc' = "check_cache"
    /\ cache0' = cache
    /\ FreshLocals
    /\ UNCHANGED << threads, file, last_set, available, model, cache, now, lastGen >>

ParamBackendOutcomes ==
    { Outcome("api_error", EmptyText), Outcome("text", ValidA), Outcome("text", ValidB) }

InitParams == Init /\ available = {"claude", "openai"}

NextParams ==
    \/ /\ pc = "idle" /\ nops < MaxParamOps
       /\ \E prompt \in Prompts, provider_name \in Overrides, task \in JsonCacheTasks,
             use_cache \in BOOLEAN, max_tokens \in MaxTokensValues,
             temperature \in TemperatureValues, system \in SystemValues,
             stop_sequences \in StopValues :
             GenerateCallWith(prompt, provider_name, task, use_cache, TRUE,
                              max_tokens, temperature, system, stop_sequences)
    \/ /\ pc = "backend"
       /\ \E o \in ParamBackendOutcomes : Iterate(o)
    \/ CheckCache
    \/ Route
    \/ Attempt
    \/ ProviderSucceeded
    \/ ProviderFailed
    \/ Return

SpecParams == InitParams /\ [][NextParams]_vars

----------------------------------------------------------------------------
(* The cache written by LLMManager.generate alone *)

\* a backend is rate-limited, fails, or hands back a text: empty, blank, too
\* short after trimming, or valid
BlankText == [i \in 1..(MinResponseLen + 2) |-> " "]
OwnBackendOutcomes ==
    { Outcome("rate_limit", EmptyText), Outcome("api_error", EmptyText) }
        \cup { Outcome("text", t) : t \in {EmptyText, BlankText, ShortText, ValidA, ValidB} }

\* a process whose cache directory only generate and clear_cache touch
NextOwnCache ==
    \/ /\ pc = "idle" /\ nops < MaxCacheOps
       /\ \E prompt \in Prompts, task \in CacheTasks,
             use_cache \in BOOLEAN, fallback \in BOOLEAN :
             GenerateCall(prompt, None, task, use_cache, fallback)
    \/ /\ pc = "idle" /\ nops < MaxCacheOps
       /\ ClearCache
    \/ Tick
    \/ /\ pc = "backend"
       /\ \E o \in OwnBackendOutcomes : Iterate(o)
    \/ CheckCache
    \/ Route
    \/ Attempt
    \/ ProviderSucceeded
    \/ ProviderFailed
    \/ Return

SpecOwnCache == InitCache /\ [][NextOwnCache]_vars

----------------------------------------------------------------------------
(* The cache directory fails: unreadable entries, vanishing files, failed writes *)

\* calls per behaviour when the cache directory fails
MaxFaultOps == 3

\* how the write of LLMCache.set fails: open(cache_path, "w") raises and the
\* file is as it was, or json.dump raises after open has truncated the file
WriteFailures == {"open", "dump"}
\* LLMCache.set whose write raises: "except Exception" logs the error
cache_set_failing(c, key, how) ==
    IF how = "open" THEN c ELSE With(c, key, Damaged)

\* the histories of the entries after the file of key was lost or damaged
ForgetSet(key) ==
    [r \in { x \in DOMAIN last_set :
                generate_cache_key(x.prompt, x.model, NoKwargs) # key } |-> last_set[r]]

\* the loop of LLMManager.generate got the text, and the write of llm_cache.set
\* fails: set returns, generate returns the text
ProviderSucceededWriteFails(how) ==
    /\ pc = "provider_done"
    /\ req.op = "generate"
    /\ prov_out.ok
    /\ req.use_cache
    /\ cache' = cache_set_failing(cache, ReqKey, how)
    /\ cache_log' = Append(cache_log, "set_failed")
    /\ lastGen' = IF how = "dump" /\ lastGen.valid /\ lastGen.key = ReqKey
                  THEN NoGen ELSE lastGen
    /\ last_set' = IF how = "dump" THEN ForgetSet(ReqKey) ELSE last_set
    /\ result' = Returned(prov_out.text, cur)
    /\ pc' = "done"
    /\ UNCHANGED << model0, threads, file, available, model, now, req, providers_to_try,
                    idx, last_error, cur, attempt, prov_out, events, invoked, failed,
                    contacted, routed, cache0, nops >>

\* a direct call of the cache, as one step: the store and the result it leaves
FaultCall(op, prompt, mdl, c, res, log) ==
    /\ pc = "idle"
    /\ model0' = model
    /\ nops' = nops + 1
    /\ req' = [op |-> op, prompt |-> prompt, provider_name |-> None, task_type |-> mdl,
               use_cache |-> TRUE, fallback |-> FALSE,
               key |-> generate_cache_key(prompt, mdl, NoKwargs)]
    /\ cache0' = cache
    /\ cache' = c
    /\ result' = res
    /\ last_set' = IF generate_cache_key(prompt, mdl, NoKwargs) \in DOMAIN c
                      /\ generate_cache_key(prompt, mdl, NoKwargs) \in DOMAIN cache
                      /\ c[generate_cache_key(prompt, mdl, NoKwargs)]
                            = cache[generate_cache_key(prompt, mdl, NoKwargs)]
                   THEN last_set
                   ELSE ForgetSet(generate_cache_key(prompt, mdl, NoKwargs))
    /\ lastGen' = IF lastGen.valid /\ lastGen.key = generate_cache_key(prompt, mdl, NoKwargs)
                     /\ c # cache
                  THEN NoGen ELSE lastGen
    /\ cache_log' = << log >>
    /\ pc' = "done"
    /\ providers_to_try' = << >>
    /\ idx' = 0
    /\ last_error' = NoError
    /\ cur' = None
    /\ attempt' = 0
    /\ prov_out' = NoOut
    /\ events' = << >>
    /\ invoked' = << >>
    /\ failed' = << >>
    /\ contacted' = {}
    /\ routed' = FALSE
    /\ UNCHANGED << threads, file, available, model, now >>

\* llm_cache.set(prompt, mdl, response) whose write fails: set returns None
CacheSetFails(prompt, mdl, how) ==
    FaultCall("set", prompt, mdl,
              cache_set_failing(cache, generate_cache_key(prompt, mdl, NoKwargs), how),
              Value(None), "set_failed")

\* llm_cache.get(prompt, mdl) whose file another caller removes between
\* cache_path.exists() and open(): open raises, None is returned
CacheGetVanished(prompt, mdl) ==
    /\ generate_cache_key(prompt, mdl, NoKwargs) \in DOMAIN cache
    /\ FaultCall("get", prompt, mdl,
                 Without(cache, generate_cache_key(prompt, mdl, NoKwargs)),
                 Missed, "get_vanished")

FaultBackendOutcomes ==
    { Outcome("api_error", EmptyText), Outcome("text", ValidA), Outcome("text", ValidB) }

NextFaults ==
    \/ /\ pc = "idle" /\ nops < MaxFaultOps
       /\ \E prompt \in Prompts, task \in CacheTasks : CacheSet(prompt, task, ValidA)
    \/ \E key \in DOMAIN cache : DamageEntry(key)
    \/ /\ pc = "idle" /\ nops < MaxFaultOps
       /\ \E prompt \in Prompts, task \in CacheTasks :
             CacheGet(prompt, task, MaxAgeHours, NoKwargs)
    \/ /\ pc = "idle" /\ nops < MaxFaultOps
       /\ \E prompt \in Prompts, task \in CacheTasks : CacheGetVanished(prompt, task)
    \/ /\ pc = "idle" /\ nops < MaxFaultOps
       /\ \E prompt \in Prompts, task \in CacheTasks, how \in WriteFailures :
             CacheSetFails(prompt, task, how)
    \/ /\ pc = "idle" /\ nops < MaxFaultOps
       /\ \E prompt \in Prompts, task \in CacheTasks :
             GenerateCall(prompt, None, task, TRUE, TRUE)
    \/ /\ pc = "backend"
       /\ \E o \in FaultBackendOutcomes : Iterate(o)
    \/ CheckCache
    \/ Route
    \/ Attempt
    \/ ProviderSucceeded
    \/ \E how \in WriteFailures : ProviderSucceededWriteFails(how)
    \/ ProviderFailed
    \/ Return

SpecFaults == InitCache /\ [][NextFaults]_vars

----------------------------------------------------------------------------
(* A call runs to its end *)

\* calls per behaviour when the end of every call is followed
MaxLiveOps == 1

\* what a backend does here: it is rate-limited, fails otherwise, or hands
\* back a valid or an invalid text
LiveBackendOutcomes ==
    { Outcome("rate_limit", EmptyText), Outcome("api_error", EmptyText),
      Outcome("text", ShortText), Outcome("text", ValidA) }

\* the steps of a call that is under way: the caller's thread runs on, every
\* backend call and every time.sleep returns
Running ==
    \/ /\ pc = "backend"
       /\ \E o \in LiveBackendOutcomes : Iterate(o)
    \/ CheckCache
    \/ Route
    \/ Attempt
    \/ ProviderSucceeded
    \/ ProviderFailed

NextLive ==
    \/ /\ pc = "idle" /\ nops < MaxLiveOps
       /\ \E prompt \in Prompts, name \in ProviderNames, task \in TaskTypes,
             use_cache \in BOOLEAN, fallback \in BOOLEAN :
             GenerateCall(prompt, name, task, use_cache, fallback)
    \/ Running
    \/ Return

SpecLive == Init /\ [][NextLive]_vars /\ WF_vars(Running)

----------------------------------------------------------------------------
(* Vocabulary of the properties *)

PriorityIndex(p) == CHOOSE i \in DOMAIN Priority : Priority[i] = p

\* length of t between its first and its last character that is not a blank
NonBlank(t) == { i \in DOMAIN t : t[i] # " " }
TrimLen(t) ==
    IF NonBlank(t) = {} THEN 0
    ELSE LET lo == CHOOSE i \in NonBlank(t) : \A j \in NonBlank(t) : i <= j
             hi == CHOOSE i \in NonBlank(t) : \A j \in NonBlank(t) : j <= i
         IN hi - lo + 1

Calls == SelectSeq(events, LAMBDA ev : ev.e = "call")
Sleeps == SelectSeq(events, LAMBDA ev : ev.e = "sleep")
LastCall == Calls[Len(Calls)]

InGenerate == req.op = "generate"
AllFailed == pc = "done" /\ InGenerate /\ result.kind = "raised" /\ result.error = "all_failed"

----------------------------------------------------------------------------
(* Properties *)

\* C1. Fallback exhaustion.  When a generate call with fallback enabled ends
\* in the all-providers-failed error, every available provider's generate was
\* invoked exactly once (as many invocations as there are available
\* providers), the routed primary first and the others in the priority order
\* claude, openai, bedrock, every one of them failed, and the error raised
\* quotes the error of the provider invoked last.
C1_FallbackExhaustion ==
    (AllFailed /\ req.fallback) =>
        /\ Len(invoked) = Cardinality(available)
        /\ \A p \in available : Cardinality({ i \in DOMAIN invoked : invoked[i] = p }) = 1
        /\ invoked[1] = get_provider(available, model, req.provider_name,
                                     req.task_type).provider
        /\ \A i, j \in 2..Len(invoked) :
              i < j => PriorityIndex(invoked[i]) < PriorityIndex(invoked[j])
        /\ failed = invoked
        /\ result.last.kind # "none"
        /\ result.last.provider = invoked[Len(invoked)]
        /\ result.last = prov_out.error

\* three providers fail one after the other, the named primary (bedrock) first
C1_Witness ==
    /\ AllFailed /\ req.fallback
    /\ invoked = << "bedrock", "claude", "openai" >>
    /\ result.last = Error("rate_limit", "openai")

\* C2. Fallback short-circuit and ordering.  A generate call invokes the
\* candidates in the order of its attempt list; it invokes a candidate only
\* when every candidate before it has been invoked and has failed and no
\* result exists yet, and never one it has invoked before.  When the call
\* returns a provider's text, that provider is the one invoked last and all
\* earlier ones failed; if it is the primary, it is the only one invoked.
C2_Step ==
    (InGenerate /\ Len(invoked') > Len(invoked)) =>
        /\ Len(invoked) < Len(providers_to_try)
        /\ invoked' = Append(invoked, providers_to_try[Len(invoked) + 1])
        /\ \A i \in DOMAIN invoked : invoked[i] # providers_to_try[Len(invoked) + 1]
        /\ failed = invoked
        /\ result.kind = "none"
C2_State ==
    (pc # "idle" /\ InGenerate) =>
        /\ invoked = SubSeq(providers_to_try, 1, Len(invoked))
        /\ \A i, j \in DOMAIN invoked : i # j => invoked[i] # invoked[j]
        /\ (pc = "done" /\ result.kind = "returned" /\ result.source # "cache") =>
              /\ invoked # << >>
              /\ result.source = invoked[Len(invoked)]
              /\ failed = SubSeq(invoked, 1, Len(invoked) - 1)
              /\ (result.source = providers_to_try[1] => invoked = << providers_to_try[1] >>)
C2_ShortCircuit == [][C2_Step]_vars /\ []C2_State

\* the second candidate returns the text after the primary failed; the third
\* is never invoked
C2_Witness ==
    /\ pc = "done" /\ InGenerate
    /\ Len(providers_to_try) = 3
    /\ result.kind = "returned" /\ result.source = providers_to_try[2]
    /\ invoked = SubSeq(providers_to_try, 1, 2)
    /\ failed = << providers_to_try[1] >>

RateLimitCall == CallEvent(Outcome("rate_limit", EmptyText))
AllRateLimited == Calls # << >> /\ \A i \in DOMAIN Calls : Calls[i].kind = "rate_limit"

\* C3. Retry cap.  A Provider.generate whose backend signals rate-limiting on
\* every attempt invokes the backend exactly 3 times, sleeps 1 s after the
\* first and 2 s after the second attempt (each delay double the one before),
\* and only after the third attempt raises the rate-limit error to its caller.
C3_RetryCap ==
    /\ (pc = "provider_done" /\ AllRateLimited) =>
          /\ events = << RateLimitCall, SleepEvent(1), RateLimitCall, SleepEvent(2),
                         RateLimitCall >>
          /\ ~prov_out.ok
          /\ prov_out.error = Error("rate_limit", cur)
    /\ (pc = "backend" /\ AllRateLimited) =>
          \/ events = << RateLimitCall, SleepEvent(1) >>
          \/ events = << RateLimitCall, SleepEvent(1), RateLimitCall, SleepEvent(2) >>

\* Bedrock, tried as a fallback, has been throttled three times
C3_Witness ==
    /\ pc = "provider_done" /\ InGenerate /\ idx > 1
    /\ cur = "bedrock"
    /\ AllRateLimited /\ Len(Calls) = 3

\* C4. Retry recovery.  A Provider.generate invokes its backend at most 3
\* times.  When the backend is rate-limited on the first k attempts (k at most
\* 2) and then hands back a valid text, generate returns that text after
\* exactly k + 1 invocations, having slept 1 s, 2 s, ... before each retry; it
\* returns nothing else as a success.  LLMManager.generate then returns that
\* text at once: the provider is not recorded as failed and no other provider
\* is invoked.
C4_State ==
    /\ Len(Calls) <= 3
    /\ (pc = "provider_done" /\ Calls # << >> /\ LastCall.kind = "text"
          /\ TrimLen(LastCall.text) >= 10) =>
          LET k == Len(Calls) - 1 IN
          /\ k \in 0..2
          /\ \A i \in 1..k : Calls[i].kind = "rate_limit"
          /\ Len(events) = 2 * k + 1
          /\ \A i \in 1..k : events[2 * i - 1].e = "call" /\ events[2 * i].e = "sleep"
          /\ Sleeps = SubSeq(<< SleepEvent(1), SleepEvent(2) >>, 1, k)
          /\ prov_out.ok
          /\ prov_out.text = LastCall.text
    /\ (pc = "provider_done" /\ prov_out.ok) =>
          /\ Calls # << >>
          /\ LastCall.kind = "text"
          /\ TrimLen(LastCall.text) >= 10
C4_Step ==
    (pc = "provider_done" /\ InGenerate /\ prov_out.ok) =>
        /\ pc' = "done"
        /\ result' = Returned(prov_out.text, cur)
        /\ invoked' = invoked
        /\ failed' = failed
        /\ last_error' = last_error
C4_RetryRecovery == []C4_State /\ [][C4_Step]_vars

\* OpenAI, the primary, returns a text on its third attempt
C4_Witness ==
    /\ pc = "done" /\ InGenerate
    /\ result.kind = "returned" /\ result.source = "openai"
    /\ Len(Calls) = 3 /\ Len(Sleeps) = 2
    /\ invoked = << "openai" >>
    /\ failed = << >>

NonRetryable == {"api_error", "unexpected"}

\* what LLMManager.generate does with a provider that raised: the next
\* candidate if fallback is enabled and there is one, else the aggregate error
EscalatesToExecutor ==
    IF req.fallback /\ idx < Len(providers_to_try)
    THEN /\ pc' = "attempt"
         /\ idx' = idx + 1
         /\ result' = result
         /\ contacted' = contacted
    ELSE /\ pc' = "done"
         /\ result' = Raised("all_failed", prov_out.error)
         /\ contacted' = contacted

\* C5. A backend error other than rate-limiting is never retried: on any
\* attempt it is the last thing the Provider.generate does with the backend (no
\* further invocation, no sleep), generate raises that error, and
\* LLMManager.generate goes on to the next candidate (the aggregate error when
\* there is none).
C5_State ==
    \A i \in DOMAIN events :
        (events[i].e = "call" /\ events[i].kind \in NonRetryable) =>
            /\ i = Len(events)
            /\ pc # "backend"
            /\ ~prov_out.ok
            /\ prov_out.error = Error(events[i].kind, cur)
C5_Step ==
    (pc = "provider_done" /\ InGenerate /\ prov_out.error.kind \in NonRetryable) =>
        EscalatesToExecutor
C5_NoRetryOnBackendError == []C5_State /\ [][C5_Step]_vars

\* the primary was rate-limited once, then hit another backend error on its
\* second attempt; the executor is about to try the second candidate
C5_Witness ==
    /\ pc = "attempt" /\ InGenerate /\ idx = 2
    /\ last_error.kind = "api_error"
    /\ Len(Calls) = 2 /\ Len(Sleeps) = 1

InvalidTextCall(ev) == ev.e = "call" /\ ev.kind = "text" /\ TrimLen(ev.text) < 10

\* C6. An invalid response (empty, blank, or shorter than 10 characters after
\* trimming) is a failure and not a retry: the backend is not invoked again and
\* nothing is slept after it, Provider.generate raises, and
\* LLMManager.generate goes on to the next candidate (the aggregate error when
\* there is none).
C6_State ==
    \A i \in DOMAIN events :
        InvalidTextCall(events[i]) =>
            /\ i = Len(events)
            /\ pc # "backend"
            /\ ~prov_out.ok
            /\ prov_out.error = Error("invalid_response", cur)
C6_Step ==
    (pc = "provider_done" /\ InGenerate /\ prov_out.error.kind = "invalid_response") =>
        EscalatesToExecutor
C6_InvalidResponseFallsBack == []C6_State /\ [][C6_Step]_vars

\* the second candidate is entered after the primary's only backend call
\* handed back a 9-character text
C6_Witness ==
    /\ pc = "backend" /\ InGenerate /\ idx = 2
    /\ last_error = Error("invalid_response", providers_to_try[1])
    /\ failed = << providers_to_try[1] >>
    /\ events = << >>

\* C7. Every text that Provider.generate returns as a success is non-empty and
\* at least 10 characters long after trimming; a backend text is returned as a
\* success exactly when it is (10 accepted, 9 and blank texts rejected).
C7_ReturnedTextValid ==
    /\ (pc \in {"provider_done", "done"} /\ prov_out.ok) =>
          /\ prov_out.text # << >>
          /\ TrimLen(prov_out.text) >= 10
    /\ (pc = "done" /\ result.kind = "returned") =>
          /\ TrimLen(result.text) >= 10
          /\ result.text = LastCall.text
    /\ (pc = "provider_done" /\ Calls # << >> /\ LastCall.kind = "text") =>
          (prov_out.ok <=> TrimLen(LastCall.text) >= 10)

\* a text of 10 characters between two blanks is returned
C7_Witness ==
    /\ pc = "done" /\ result.kind = "returned"
    /\ Len(result.text) = 11 /\ TrimLen(result.text) = 10
    /\ result.text[1] = " "

\* C8. A provider that is not available is never returned by routing, never in
\* the attempt list, never invoked by LLMManager.generate, also when the caller
\* names it, and its backend is never invoked; its generate, called directly,
\* raises without invoking the backend.
C8_UnavailableNeverUsed ==
    /\ contacted \subseteq available
    /\ \A n \in ProviderNames, t \in TaskTypes :
          get_provider(available, model, n, t).provider \in available \cup {None}
    /\ InGenerate =>
          /\ \A i \in DOMAIN providers_to_try : providers_to_try[i] \in available
          /\ \A i \in DOMAIN invoked : invoked[i] \in available
    /\ (req.op = "provider" /\ pc \in {"provider_done", "done"} /\ cur \notin available) =>
          /\ events = << >>
          /\ ~prov_out.ok
          /\ prov_out.error = Error("not_configured", cur)
          /\ pc = "done" => result = Raised("not_configured", prov_out.error)

\* the caller named bedrock, which is not available: openai answered
C8_Witness ==
    /\ pc = "done" /\ InGenerate
    /\ req.provider_name = "bedrock" /\ "bedrock" \notin available
    /\ result.kind = "returned" /\ result.source = "openai"
    /\ contacted = {"openai"}

\* the request's cache entry as the call found it, and its age in hours
HadEntry == ReqKey \in DOMAIN cache0
EntryAge == now - cache0[ReqKey].cached_at

C10_Written ==
    (pc = "done" /\ InGenerate /\ req.use_cache /\ result.kind = "returned"
       /\ result.source # "cache") =>
        /\ ReqKey \in DOMAIN cache
        /\ cache[ReqKey].response = result.text
        /\ cache[ReqKey].cached_at = now

\* C10, second part.  While the entry that generate wrote is in place and at
\* most 168 hours old, an identical request with the cache enabled does not get
\* past the cache lookup, and is answered with the same text and no provider.
C10_NextHit ==
    /\ (pc = "route" /\ InGenerate /\ req.use_cache) =>
          ~(lastGen.valid /\ lastGen.key = ReqKey /\ now - lastGen.at <= 168)
    /\ (pc = "done" /\ InGenerate /\ result.source = "cache"
          /\ lastGen.valid /\ lastGen.key = ReqKey) =>
          /\ result.text = lastGen.text
          /\ invoked = << >>

GenerateRaised == pc = "done" /\ InGenerate /\ result.kind = "raised"

\* C10 as claimed: ... and when generate fails (all providers failed, or no
\* provider) the cache is left unchanged.
C10_Original ==
    /\ C10_Written
    /\ C10_NextHit
    /\ GenerateRaised => cache = cache0

\* C10 as amended: ... and when generate fails it has written no entry; the
\* cache is as the call found it, except that the lookup has deleted the
\* request's own entry if that entry was older than 168 hours.
C10_CacheAfterGenerate ==
    /\ C10_Written
    /\ C10_NextHit
    /\ GenerateRaised =>
          \/ cache = cache0
          \/ /\ req.use_cache /\ HadEntry /\ EntryAge > 168
             /\ DOMAIN cache = DOMAIN cache0 \ {ReqKey}
             /\ \A k \in DOMAIN cache : cache[k] = cache0[k]

\* a request is answered from the entry an earlier generate wrote exactly 168
\* hours before
C10_Witness ==
    /\ pc = "done" /\ InGenerate /\ req.use_cache
    /\ result.kind = "returned" /\ result.source = "cache"
    /\ lastGen.valid /\ lastGen.key = ReqKey /\ lastGen.text = ValidB
    /\ now - lastGen.at = 168
    /\ result.text = ValidB

\* the request is a low-cost one that leaves the routing to the task type,
\* on a manager with two available providers
LowCostOnTwo ==
    /\ InGenerate
    /\ req.task_type = "simple" /\ req.provider_name = None /\ req.fallback
    /\ Cardinality(available) = 2
FirstOfTwo == FirstAvailable(available)
SecondOfTwo == CHOOSE p \in available : p # FirstOfTwo

\* C11. End-to-end failover.  In a low-cost request on two available
\* providers, the first provider raises the rate-limit error only after 3
\* backend invocations (sleeping 1 s and 2 s between them), and the manager then
\* invokes the second.  When the second succeeds, the two were invoked once
\* each in that order, the result is the text the second provider's backend
\* handed back, and with the cache enabled the cache is the one the call found
\* plus exactly one entry, for the request's prompt and task type, holding that
\* text; with the cache disabled the cache was neither read nor written.
C11_State ==
    /\ (LowCostOnTwo /\ pc = "provider_done" /\ idx = 1 /\ ~prov_out.ok
          /\ prov_out.error.kind = "rate_limit") =>
          /\ cur = FirstOfTwo
          /\ events = << RateLimitCall, SleepEvent(1), RateLimitCall, SleepEvent(2),
                         RateLimitCall >>
    /\ (LowCostOnTwo /\ pc = "done" /\ failed = << FirstOfTwo >>
          /\ last_error.kind = "rate_limit" /\ result.kind = "returned") =>
          /\ invoked = << FirstOfTwo, SecondOfTwo >>
          /\ contacted = available
          /\ result.source = SecondOfTwo
          /\ LastCall.kind = "text"
          /\ result.text = LastCall.text
          /\ IF req.use_cache
             THEN /\ DOMAIN cache = DOMAIN cache0 \cup {ReqKey}
                  /\ Cardinality(DOMAIN cache) = Cardinality(DOMAIN cache0) + 1
                  /\ \A k \in DOMAIN cache0 : cache[k] = cache0[k]
                  /\ cache[ReqKey].prompt = req.prompt
                  /\ cache[ReqKey].response = result.text
             ELSE /\ cache = cache0
                  /\ cache_log = << >>
C11_Step ==
    (LowCostOnTwo /\ pc = "provider_done" /\ idx = 1 /\ ~prov_out.ok
       /\ prov_out.error.kind = "rate_limit") =>
        /\ pc' = "attempt"
        /\ idx' = 2
        /\ providers_to_try[2] = SecondOfTwo
        /\ last_error' = prov_out.error
        /\ failed' = << FirstOfTwo >>
        /\ cache' = cache
C11_Failover == []C11_State /\ [][C11_Step]_vars

\* claude was rate-limited three times, openai answered, and the text is in
\* the cache
C11_Witness ==
    /\ LowCostOnTwo /\ pc = "done" /\ req.use_cache
    /\ available = {"claude", "openai"}
    /\ failed = << "claude" >> /\ last_error = Error("rate_limit", "claude")
    /\ result = Returned(ValidB, "openai")
    /\ DOMAIN cache = {ReqKey} /\ cache[ReqKey].response = ValidB

GetReturned == pc = "done" /\ req.op = "get"

\* the same parameters in another insertion order
Reordered(x, y) ==
    /\ Len(x) = Len(y)
    /\ { x[i] : i \in DOMAIN x } = { y[i] : i \in DOMAIN y }
\* y is x with one more parameter, whose value is None
WithNull(x, y) ==
    \E i \in DOMAIN y :
        /\ y[i][2] = None
        /\ x = SubSeq(y, 1, i - 1) \o SubSeq(y, i + 1, Len(y))

\* C12. Cache key determinism.  The key that LLMCache computes for a prompt, a
\* task type and keyword parameters is the key it computes for the same
\* parameters in any other insertion order and with any further parameter
\* whose value is None; so a get finds the entry of a set that gave the
\* parameters in another order or with None among them.
C12_KeyDeterminism ==
    /\ GetReturned =>
          /\ \A y \in AllKwargs :
                (Reordered(req.kwargs, y) \/ WithNull(req.kwargs, y)) =>
                    generate_cache_key(req.prompt, req.task_type, y) = req.key
          /\ RequestId(req.prompt, req.task_type, req.kwargs) \in DOMAIN last_set =>
                result.kind = "returned"
    /\ \A k \in DOMAIN cache : \A y \in AllKwargs :
          Reordered(cache[k].parameters, y) =>
              generate_cache_key(cache[k].prompt, cache[k].model, y) = k

\* a get that names temperature before max_tokens and passes None for neither
\* hits the entry of a set that named max_tokens first
C12_Witness ==
    /\ GetReturned /\ result.kind = "returned"
    /\ req.kwargs = << << "temperature", "0" >>, << "max_tokens", "0" >> >>
    /\ cache[req.key].parameters = << << "max_tokens", "0" >>, << "temperature", "0" >> >>

\* C13. Expiry.  LLMCache.get with maximum age H on an entry cached at T
\* returns the stored response when now - T <= H (exactly H included) and
\* leaves the store as it is; when now - T > H it returns None and the entry is
\* gone from the store, the other entries untouched.  Without an entry it
\* returns None.
C13_Expiry ==
    GetReturned =>
        IF req.key \in DOMAIN cache0
        THEN LET age == now - cache0[req.key].cached_at IN
             /\ age <= req.max_age_hours =>
                   /\ result = Returned(cache0[req.key].response, "cache")
                   /\ cache = cache0
             /\ age > req.max_age_hours =>
                   /\ result = Missed
                   /\ req.key \notin DOMAIN cache
                   /\ DOMAIN cache = DOMAIN cache0 \ {req.key}
                   /\ \A k \in DOMAIN cache : cache[k] = cache0[k]
        ELSE /\ result = Missed
             /\ cache = cache0

\* an entry is returned at exactly its maximum age
C13_Witness ==
    /\ GetReturned /\ result.kind = "returned"
    /\ req.key \in DOMAIN cache0
    /\ now - cache0[req.key].cached_at = req.max_age_hours

\* C14. LLMCache.set overwrites the entry of its key and stamps it with the
\* current time, leaving the other entries alone; a get within the maximum age
\* of the latest set for the same prompt, task type and parameters returns the
\* response of that set, also when the entry before it had expired.
C14_State ==
    GetReturned =>
        LET id == RequestId(req.prompt, req.task_type, req.kwargs) IN
        (id \in DOMAIN last_set /\ now - last_set[id].at <= req.max_age_hours) =>
            result = Returned(last_set[id].response, "cache")
C14_Step ==
    (pc = "idle" /\ pc' = "idle" /\ nops' # nops) =>
        \E k \in DOMAIN cache' :
            /\ DOMAIN cache' = DOMAIN cache \cup {k}
            /\ \A j \in DOMAIN cache \ {k} : cache'[j] = cache[j]
            /\ cache'[k].cached_at = now
            /\ k = generate_cache_key(cache'[k].prompt, cache'[k].model, cache'[k].parameters)
            /\ LET id == RequestId(cache'[k].prompt, cache'[k].model, cache'[k].parameters) IN
               /\ id \in DOMAIN last_set'
               /\ last_set'[id] = LastSet(cache'[k].response, now)
C14_SetOverwrites == []C14_State /\ [][C14_Step]_vars

\* the third call, a get, is answered from an entry that was set more than
\* 168 hours after the process started
C14_Witness ==
    /\ GetReturned /\ result = Returned(ValidA, "cache")
    /\ nops = 3
    /\ cache0[req.key].cached_at > MaxAgeHours
    /\ req.max_age_hours = TickHours

\* the available provider that comes first in the order claude, openai, bedrock
IsFirstByPriority(p) ==
    /\ p \in available
    /\ \A q \in available : PriorityIndex(p) <= PriorityIndex(q)
\* the model of provider p that no model of its price table undercuts
IsCheapest(p, m) ==
    /\ m \in DOMAIN PRICING(p)
    /\ \A n \in DOMAIN PRICING(p) :
          PRICING(p)[m][1] <= PRICING(p)[n][1] /\ PRICING(p)[m][2] <= PRICING(p)[n][2]

\* LLMManager.generate is about to call get_provider
Routing == pc = "route" /\ InGenerate
\* ... and has called it: the provider it got is the head of the attempt list
AfterRouting == InGenerate /\ pc \in {"attempt", "backend", "provider_done"} /\ idx = 1
LowCost == req.provider_name = None /\ req.task_type \in {"simple", "refinement"}

\* C18. Routing of a low-cost or revision request without provider override
\* returns the first available provider in the order claude, openai, bedrock,
\* and on return that provider's model is the cheapest of its price table,
\* whatever model it was on before; the request's first backend calls are made
\* on that model.
C18_Step ==
    (Routing /\ LowCost /\ available # {}) =>
        /\ pc' = "attempt"
        /\ IsFirstByPriority(providers_to_try'[1])
        /\ IsCheapest(providers_to_try'[1], model'[providers_to_try'[1]])
C18_State ==
    (AfterRouting /\ LowCost) =>
        /\ IsFirstByPriority(providers_to_try[1])
        /\ IsCheapest(providers_to_try[1], model[providers_to_try[1]])
C18_LowCostRouting == [][C18_Step]_vars /\ []C18_State

\* a revision request puts claude back on its cheapest model after an earlier
\* request had left it on another one
C18_Witness ==
    /\ AfterRouting /\ LowCost /\ req.task_type = "refinement"
    /\ providers_to_try[1] = "claude"
    /\ model0["claude"] = "claude-3-5-sonnet-20241022"
    /\ model["claude"] = "claude-3-5-haiku-20241022"

HighQuality == req.provider_name = None /\ req.task_type = "script_generation"

\* C19. Routing of a script-generation request without provider override
\* returns claude on claude-3-5-sonnet when claude is available, and otherwise,
\* when openai is available, openai on gpt-4o.
C19_Step ==
    (Routing /\ HighQuality) =>
        /\ "claude" \in available =>
              /\ providers_to_try'[1] = "claude"
              /\ model'["claude"] = "claude-3-5-sonnet-20241022"
        /\ ("claude" \notin available /\ "openai" \in available) =>
              /\ providers_to_try'[1] = "openai"
              /\ model'["openai"] = "gpt-4o"
C19_State ==
    (AfterRouting /\ HighQuality) =>
        /\ "claude" \in available =>
              /\ providers_to_try[1] = "claude"
              /\ model["claude"] = get_quality_model("claude")
        /\ ("claude" \notin available /\ "openai" \in available) =>
              /\ providers_to_try[1] = "openai"
              /\ model["openai"] = get_quality_model("openai")
C19_HighQualityRouting == [][C19_Step]_vars /\ []C19_State

\* claude is not available: openai, on its default model when the call
\* started, is routed to on gpt-4o
C19_Witness ==
    /\ AfterRouting /\ HighQuality
    /\ "claude" \notin available
    /\ providers_to_try[1] = "openai"
    /\ model0["openai"] = "gpt-4o-mini"
    /\ model["openai"] = "gpt-4o"

NamedAvailable == req.provider_name # None /\ Lower(req.provider_name) \in available
NamedUnavailable == req.provider_name # None /\ Lower(req.provider_name) \notin available
Generic == req.provider_name = None /\ req.task_type = "general"

\* C20. Explicit override.  When the caller names an available provider,
\* routing returns that provider and changes no provider's model, whatever
\* the task type.  When the named provider is not available, or none is named
\* and the task is a generic one, routing returns the first available provider
\* in the order claude, openai, bedrock (and no provider when none is
\* available).
C20_Step ==
    Routing =>
        /\ NamedAvailable =>
              /\ providers_to_try'[1] = Lower(req.provider_name)
              /\ model' = model
        /\ ((NamedUnavailable \/ Generic) /\ available # {}) =>
              IsFirstByPriority(providers_to_try'[1])
        /\ ((NamedUnavailable \/ Generic) /\ available = {}) =>
              /\ pc' = "done"
              /\ result' = Raised("no_providers", NoError)
        /\ Generic => model' = model
C20_State ==
    AfterRouting =>
        /\ NamedAvailable =>
              /\ providers_to_try[1] = Lower(req.provider_name)
              /\ model = model0
        /\ (NamedUnavailable \/ Generic) => IsFirstByPriority(providers_to_try[1])
C20_ExplicitOverride == [][C20_Step]_vars /\ []C20_State

\* a low-cost request that names claude gets claude on the model an earlier
\* request left it on, which is not the cheapest
C20_Witness ==
    /\ AfterRouting
    /\ req.provider_name = "claude" /\ req.task_type = "simple"
    /\ providers_to_try[1] = "claude"
    /\ model0["claude"] = "claude-3-5-sonnet-20241022"
    /\ model["claude"] = "claude-3-5-sonnet-20241022"

ThreadsAtRest == \A t \in Threads : threads[t].pc \in {"idle", "done"}

\* C15. Atomic entry writes.  A LLMCache.get that began when the key had a
\* complete entry, and that runs while another thread sets the same key,
\* returns a complete response: the one of the entry that was there or the one
\* another thread writes, never None and never a mixture.  And when only one
\* thread has written, whatever the reads that overlapped, the file holds the
\* complete entry of its latest set once every call has returned.
C15_AtomicEntryWrites ==
    /\ \A t \in Threads :
          (threads[t].op = "get" /\ threads[t].pc = "done" /\ threads[t].had.some) =>
              /\ threads[t].hit
              /\ threads[t].response \in
                    {threads[t].had.text} \cup { ThreadText(u) : u \in Threads \ {t} }
    /\ (ThreadsAtRest /\ Cardinality({ t \in Threads : threads[t].sets > 0 }) = 1) =>
          /\ json_load(file.data).ok
          /\ json_load(file.data).response = file.committed.text

\* C16. Last write wins.  When two concurrent LLMManager.generate calls both
\* missed on the key, both had their provider produce a text and both wrote
\* it, then after both have returned the file holds one complete entry: the
\* response and the time stamp of the writer that closed the file last.
C16_LastWriteWins ==
    (\A t \in Threads : /\ threads[t].op = "generate" /\ threads[t].pc = "done"
                        /\ threads[t].n = 1 /\ threads[t].sets = 1) =>
        LET e == json_load(file.data) IN
        /\ e.ok
        /\ e.response = file.committed.text
        /\ e.cached_at = now
        /\ \E t \in Threads : e.response = ThreadText(t)

\* C17. The Response Cache is the only mutable state shared between concurrent
\* requests: every backend call of a LLMManager.generate that runs beside
\* others on the same manager is made with the model that the routing of that
\* same request selected, whatever the other requests do in between.
C17_ModelIsRequestLocal ==
    \A t \in Threads :
        (threads[t].op = "request" /\ threads[t].calls > 0) =>
            threads[t].used = threads[t].selected

\* what is left of the store the call found: nothing added, nothing changed
NothingWritten ==
    /\ \A i \in DOMAIN cache_log : cache_log[i] # "set"
    /\ DOMAIN cache \subseteq DOMAIN cache0
    /\ \A k \in DOMAIN cache : cache[k] = cache0[k]

\* C21. Routing returns no provider exactly when no provider is available,
\* whatever the task type and the provider named; LLMManager.generate then
\* ends in the no-providers error, having invoked no provider and no backend,
\* retried nothing and written nothing to the cache; and it ends in that error
\* in no other case.
C21_NoProviderIsFatal ==
    /\ \A n \in ProviderNames, t \in TaskTypes :
          (get_provider(available, model, n, t).provider = None) <=> (available = {})
    /\ (pc # "idle" /\ InGenerate /\ routed /\ available = {}) =>
          /\ pc = "done"
          /\ result = Raised("no_providers", NoError)
          /\ providers_to_try = << >>
          /\ invoked = << >> /\ contacted = {}
          /\ events = << >> /\ attempt = 0
          /\ NothingWritten
    /\ (pc = "done" /\ InGenerate /\ result.kind = "raised"
          /\ result.error = "no_providers") =>
          /\ available = {}
          /\ routed

\* bedrock is named with the cache enabled, nothing is configured: the lookup
\* missed, routing found nothing, the call raised
C21_Witness ==
    /\ pc = "done" /\ InGenerate
    /\ available = {}
    /\ req.provider_name = "bedrock" /\ req.task_type = "script_generation"
    /\ req.use_cache /\ req.fallback
    /\ cache_log = << "get" >>
    /\ result = Raised("no_providers", NoError)

Listed == { providers_to_try[i] : i \in DOMAIN providers_to_try }

\* C22. The attempt list of LLMManager.generate is the routed primary followed
\* by every other available provider, each provider once; with fallback
\* disabled it is the primary alone, so that one provider at most is invoked
\* and, when it fails, its error is the one the all-providers-failed error
\* quotes.
C22_AttemptList ==
    (InGenerate /\ (pc \in {"attempt", "backend", "provider_done"}
                       \/ (pc = "done" /\ providers_to_try # << >>))) =>
        /\ providers_to_try # << >>
        /\ providers_to_try[1] =
              get_provider(available, model, req.provider_name, req.task_type).provider
        /\ \A i, j \in DOMAIN providers_to_try :
              i # j => providers_to_try[i] # providers_to_try[j]
        /\ req.fallback => Listed = available
        /\ ~req.fallback =>
              /\ Len(providers_to_try) = 1
              /\ Len(invoked) <= 1
              /\ (pc = "done" /\ result.kind = "raised") =>
                    /\ invoked = providers_to_try
                    /\ failed = providers_to_try
                    /\ result = Raised("all_failed", prov_out.error)
                    /\ result.last.provider = providers_to_try[1]
                    /\ result.last.kind \in BackendErrors \cup {"invalid_response"}

\* all three are available, the caller named OpenAI and disabled fallback:
\* openai failed and nothing else was tried
C22_Witness ==
    /\ pc = "done" /\ InGenerate
    /\ available = Providers
    /\ ~req.fallback /\ req.provider_name = "OpenAI"
    /\ providers_to_try = << "openai" >>
    /\ invoked = << "openai" >>
    /\ result = Raised("all_failed", Error("api_error", "openai"))

Range(s) == { s[i] : i \in DOMAIN s }

\* C23. No partial results.  A LLMManager.generate call that went past the
\* cache lookup ends in one of two ways.  Either it returns a text: then that
\* text is, whole and unchanged, the text the backend of one provider handed
\* back in its last invocation, that provider is the one invoked last, it did
\* not fail and every provider invoked before it did.  Or it raises the
\* no-providers or the all-providers-failed error and carries no text.  A step
\* in which a provider fails never produces a text, and a text appears in the
\* result only in the step that takes it from the provider that just returned.
C23_State ==
    (pc = "done" /\ InGenerate /\ routed) =>
        /\ result.kind \in {"returned", "raised"}
        /\ result.kind = "returned" =>
              /\ invoked # << >>
              /\ result.source = invoked[Len(invoked)]
              /\ result.source = cur
              /\ result.source \notin Range(failed)
              /\ failed = SubSeq(invoked, 1, Len(invoked) - 1)
              /\ Calls # << >>
              /\ LastCall.kind = "text"
              /\ result.text = LastCall.text
              /\ \A i \in 1..(Len(Calls) - 1) : Calls[i].kind # "text"
        /\ result.kind = "raised" =>
              /\ result.text = EmptyText
              /\ result.source = None
              /\ result.error \in {"no_providers", "all_failed"}
              /\ failed = invoked
C23_Step ==
    InGenerate =>
        /\ (failed' # failed) => (result'.kind \in {"none", "raised"} /\ result'.text = EmptyText)
        /\ (routed /\ result'.kind = "returned" /\ result.kind # "returned") =>
              /\ pc = "provider_done" /\ prov_out.ok
              /\ result'.text = prov_out.text
              /\ result'.source = cur
              /\ failed' = failed
C23_NoPartialResults == [][C23_Step]_vars /\ []C23_State

\* claude and openai failed; the text of bedrock, the last candidate, is returned
C23_Witness ==
    /\ pc = "done" /\ InGenerate /\ routed
    /\ failed = << "claude", "openai" >>
    /\ result = Returned(ValidB, "bedrock")
    /\ Len(Calls) = 3

\* C24. Every LLMManager.generate call comes to its end, a returned text or a
\* raised error, provided the caller's thread runs on and every backend call
\* and every sleep returns.  Until then no provider's backend is invoked more
\* than 3 times, no provider is invoked a second time and none that is not
\* available, and the position in the attempt list never moves back.
C24_State ==
    InGenerate =>
        /\ Len(Calls) <= 3
        /\ attempt <= 3
        /\ \A i, j \in DOMAIN invoked : i # j => invoked[i] # invoked[j]
        /\ Range(invoked) \subseteq available
        /\ Len(invoked) <= Cardinality(available)
        /\ pc = "done" => result.kind \in {"returned", "raised"}
C24_Step ==
    (InGenerate /\ InGenerate') =>
        /\ idx' >= idx
        /\ Len(invoked') > Len(invoked) =>
              /\ idx' = idx
              /\ invoked' = Append(invoked, providers_to_try[idx])
              /\ providers_to_try[idx] \notin Range(invoked)
C24_Ends == InGenerate ~> (InGenerate /\ pc = "done")
C24_Termination == []C24_State /\ [][C24_Step]_vars /\ C24_Ends

\* the call has ended after three providers were rate-limited three times each
C24_Witness ==
    /\ pc = "done" /\ InGenerate
    /\ Len(invoked) = 3 /\ failed = invoked
    /\ Len(Calls) = 3
    /\ result.last.kind = "rate_limit"

\* C25. Availability is fixed for the life of the process.  No step of any
\* sequence of generate calls, whether they return or raise, changes the set
\* of available providers.  Of a provider only the active model ever changes:
\* only in the routing step of a call, only for the provider that routing
\* returns, and only to a model of that provider's price table.  (A provider's
\* name and price table are attributes that no statement assigns after
\* construction; here they are the operators Priority and PRICING.)
C25_Step ==
    /\ available' = available
    /\ model' # model =>
          /\ pc = "route"
          /\ LET p == get_provider(available, model, req.provider_name, req.task_type).provider IN
             /\ p \in available
             /\ \A q \in Providers \ {p} : model'[q] = model[q]
C25_State ==
    /\ available \subseteq Providers
    /\ DOMAIN model = Providers
    /\ \A p \in Providers : model[p] \in DOMAIN PRICING(p)
C25_AvailabilityFixed == [][C25_Step]_vars /\ []C25_State

\* two calls were served by a process with claude and bedrock: routing has
\* moved claude to another model, the second call failed on both providers
C25_Witness ==
    /\ nops = 2 /\ pc = "done" /\ InGenerate
    /\ available = {"claude", "bedrock"}
    /\ model["claude"] # DEFAULT_MODEL("claude")
    /\ failed = << "claude", "bedrock" >>
    /\ result.kind = "raised"

\* the entries that the call found and that are gone
Deleted == DOMAIN cache0 \ DOMAIN cache
OthersUntouched ==
    /\ DOMAIN cache \subseteq DOMAIN cache0
    /\ \A k \in DOMAIN cache : cache[k] = cache0[k]
\* whether LLMCache.get, called now for the request of entry k with maximum
\* age h, would find the entry expired (and delete it)
ExpiredForGet(c, k, h) ==
    /\ Readable(c[k])
    /\ k \notin DOMAIN cache_get(c, now, c[k].prompt, c[k].model, h, c[k].parameters).cache

\* C28. clear_expired(H) deletes exactly the readable entries that are more
\* than H hours old, which are the entries that get with maximum age H would
\* treat as expired at that instant; it leaves every other entry as it was,
\* unreadable files included, and returns the number of entries it deleted.
C28_ClearExpired ==
    (pc = "done" /\ req.op = "clear_expired") =>
        /\ \A k \in DOMAIN cache0 :
              k \in Deleted <=>
                  (Readable(cache0[k]) /\ now - cache0[k].cached_at > req.max_age_hours)
        /\ \A k \in DOMAIN cache0 :
              k \in Deleted <=> ExpiredForGet(cache0, k, req.max_age_hours)
        /\ OthersUntouched
        /\ result.value = Cardinality(Deleted)

\* three files: an entry of 168 hours is deleted by clear_expired(84), an
\* entry of exactly 84 hours and a file that cannot be read are kept
C28_Witness ==
    /\ pc = "done" /\ req.op = "clear_expired" /\ req.max_age_hours = 84
    /\ Cardinality(DOMAIN cache0) = 3
    /\ Cardinality(Deleted) = 1
    /\ \E k \in DOMAIN cache : Readable(cache[k]) /\ now - cache[k].cached_at = 84
    /\ \E k \in DOMAIN cache : ~Readable(cache[k])
    /\ result.value = 1

EveryGetMisses ==
    \A prompt \in Prompts, mdl \in MaintTasks, h \in StoreMaxAges :
        ~cache_get(cache, now, prompt, mdl, h, NoKwargs).hit

\* C29. clear_all() empties the store whatever the age of the entries and
\* whether or not they can be read, and returns how many files it removed.
\* While the store is as clear_all left it, get_cache_stats reports 0
\* entries and every get is a miss; only a set puts an entry into the empty
\* store.
C29_State ==
    /\ (pc = "done" /\ req.op = "clear_all") =>
          /\ cache = << >>
          /\ result.value = Cardinality(DOMAIN cache0)
    /\ cache = << >> =>
          /\ get_cache_stats(cache).total_entries = 0
          /\ EveryGetMisses
          /\ (pc = "done" /\ req.op = "get_cache_stats") => result.value.total_entries = 0
          /\ (pc = "done" /\ req.op = "get") => result = Missed
C29_Step ==
    (cache = << >> /\ cache' # << >>) =>
        \E prompt \in Prompts, mdl \in MaintTasks :
            cache' = cache_set(cache, now, prompt, mdl, ValidA, NoKwargs)
C29_ClearAll == [][C29_Step]_vars /\ []C29_State

\* clear_all has removed three files: a fresh entry, one of 168 hours and one
\* that cannot be read
C29_Witness ==
    /\ pc = "done" /\ req.op = "clear_all"
    /\ result.value = 3
    /\ \E k \in DOMAIN cache0 : ~Readable(cache0[k])
    /\ \E k \in DOMAIN cache0 : Readable(cache0[k]) /\ cache0[k].cached_at = now
    /\ \E k \in DOMAIN cache0 : Readable(cache0[k]) /\ now - cache0[k].cached_at = 168
    /\ cache = << >>

ReadableKeys == { k \in DOMAIN cache : Readable(cache[k]) }
ReadableTimes == { cache[k].cached_at : k \in ReadableKeys }

\* C30. get_cache_stats() returns the entry count, the total size and the
\* oldest and the newest time stamp, oldest <= newest; a file that cannot be
\* read never makes it fail and is left out of every figure reported: the
\* count and the size are those of the readable entries, the time stamps are
\* the least and the greatest among them; an empty store gives count 0 and no
\* time stamps.
C30_StatsSkipUnreadable ==
    (pc = "done" /\ req.op = "get_cache_stats") =>
        /\ result.kind = "returned"
        /\ result.value.total_entries = Cardinality(ReadableKeys)
        /\ result.value.total_size_mb = total_size_mb(SumSizes(cache, ReadableKeys))
        /\ result.value.oldest_entry.some <=> ReadableKeys # {}
        /\ result.value.newest_entry.some <=> ReadableKeys # {}
        /\ ReadableKeys # {} =>
              /\ result.value.oldest_entry.at \in ReadableTimes
              /\ result.value.newest_entry.at \in ReadableTimes
              /\ \A h \in ReadableTimes :
                    result.value.oldest_entry.at <= h /\ h <= result.value.newest_entry.at
        /\ cache = << >> => result.value.total_entries = 0

\* the span of a text from its first `open` to its last `close`
FirstAt(ch, s) == CHOOSE i \in DOMAIN s : s[i] = ch /\ \A j \in 1..(i - 1) : s[j] # ch
LastAt(ch, s) == CHOOSE i \in DOMAIN s : s[i] = ch /\ \A j \in (i + 1)..Len(s) : s[j] # ch
HasSpan(open, close, s) ==
    /\ \E i \in DOMAIN s : s[i] = open
    /\ \E i \in DOMAIN s : s[i] = close
    /\ FirstAt(open, s) < LastAt(close, s)
Span(open, close, s) == SubSeq(s, FirstAt(open, s), LastAt(close, s))
SpanParses(open, close, s) == HasSpan(open, close, s) /\ json_loads(Span(open, close, s)).ok
\* the step that parses a text generate returned
ParsesReturned == pc = "done" /\ pc' = "parsed" /\ result.kind = "returned"
One == Number(<< "1" >>)
OneTwoThree == Array(<< Number(<< "1" >>), Number(<< "2" >>), Number(<< "3" >>) >>)

\* C26: on the text that generate returned the parse step tries, in this order
\* and stopping at the first that parses: the whole text as JSON, then the span
\* from the first "{" to the last "}", which gives an object, then the span from
\* the first "[" to the last "]", which gives an array; the value of the first
\* that parses is returned. 'Sure! {"a":1} thanks' gives the object {"a": 1}
\* and '[1,2,3]' gives the array [1, 2, 3].
C26_Step ==
    ParsesReturned =>
        LET t == result.text
            whole == json_loads(t)
            braces == SpanParses("{", "}", t)
            brackets == SpanParses("[", "]", t)
        IN /\ result'.text = t
           /\ whole.ok => result'.kind = "returned" /\ result'.value = whole.val
           /\ (~whole.ok /\ braces) =>
                /\ result'.kind = "returned"
                /\ result'.value = json_loads(Span("{", "}", t)).val
                /\ result'.value.t = "object"
           /\ (~whole.ok /\ ~braces /\ brackets) =>
                /\ result'.kind = "returned"
                /\ result'.value = json_loads(Span("[", "]", t)).val
                /\ result'.value.t = "array"
           /\ t = TextSure =>
                result'.kind = "returned" /\ result'.value = Object((<< "a" >> :> One))
           /\ t = TextArray => result'.kind = "returned" /\ result'.value = OneTwoThree
C26_SalvageOrder == [][C26_Step]_vars

\* a text whose whole and whose brace span are not JSON has given the array of
\* its bracket span
C26_Witness ==
    /\ pc = "parsed"
    /\ result.kind = "returned"
    /\ result.text = TextBraceThenArray
    /\ result.value = OneTwoThree

\* C27: when the whole text, the brace span and the bracket span all fail to
\* parse (as for 'no json here'), the parse step raises a parse error that
\* carries the first 200 characters of the text and returns no value; the step
\* invokes no provider, changes no cache entry, and the call ends with it.
C27_Step ==
    /\ ParsesReturned =>
        LET t == result.text
            n == IF Len(t) < 200 THEN Len(t) ELSE 200
            fails == /\ ~json_loads(t).ok
                     /\ ~SpanParses("{", "}", t)
                     /\ ~SpanParses("[", "]", t)
        IN /\ fails =>
                /\ result'.kind = "raised"
                /\ result'.error = "parse_error"
                /\ result'.value = NoValue
                /\ Len(result'.quoted) = n
                /\ \A i \in 1..n : result'.quoted[i] = t[i]
           /\ result'.error = "parse_error" => fails
           /\ t = TextNoJson => result'.error = "parse_error" /\ result'.quoted = TextNoJson
           /\ invoked' = invoked
           /\ contacted' = contacted
           /\ events' = events
           /\ cache' = cache
    /\ pc = "parsed" => pc' = "idle"
C27_ParseError == [][C27_Step]_vars

\* a text of more than 200 characters has been refused with its first 200
C27_Witness ==
    /\ pc = "parsed"
    /\ result.error = "parse_error"
    /\ result.text = TextLong
    /\ Len(result.quoted) = 200
    /\ invoked = << "claude" >>

\* a call of get_cost has returned or raised
CostDone == pc = "done" /\ req.op = "get_cost"
Priced == model[req.provider_name] \in DOMAIN PRICING(req.provider_name)
Price == PRICING(req.provider_name)[model[req.provider_name]]

\* C31: for an active model that the provider's price table lists, get_cost
\* returns input_tokens / 1,000,000 times the model's input price plus
\* output_tokens / 1,000,000 times its output price (here in 10^-8 dollars, with
\* prices in hundredths of a dollar per million tokens) and logs no warning; for
\* the model priced (2.50, 10.00), 100,000 input and 50,000 output tokens cost
\* 0.75 dollars.
C31_CostFormula ==
    (CostDone /\ Priced) =>
        /\ result.kind = "returned"
        /\ ~result.warned
        /\ result.value = req.input_tokens * Price[1] + req.output_tokens * Price[2]
        /\ (Price = << 250, 1000 >> /\ req.input_tokens = 100000
                /\ req.output_tokens = 50000) => result.value = 75000000

\* the claim's example: gpt-4o, 100,000 input and 50,000 output tokens
C31_Witness ==
    /\ CostDone
    /\ req.provider_name = "openai"
    /\ model["openai"] = "gpt-4o"
    /\ req.input_tokens = 100000
    /\ req.output_tokens = 50000
    /\ result.value = 75000000

\* C32: for an active model that the provider's price table does not list,
\* get_cost of each provider returns zero and logs a warning, whatever the token
\* counts; and a backend answer that passes validation is returned by
\* <Provider>.generate whatever the active model is.
C32_UnknownModelCostsZero ==
    /\ (CostDone /\ ~Priced) =>
            result.kind = "returned" /\ result.value = 0 /\ result.warned
    /\ (pc \in {"provider_done", "done"} /\ req.op = "provider" /\ Calls # << >>
          /\ LastCall.kind = "text" /\ validate_response(LastCall.text)) =>
            prov_out.ok /\ prov_out.text = LastCall.text

\* a provider whose model has no price has returned the backend's text
C32_Witness ==
    /\ pc = "done"
    /\ req.op = "provider"
    /\ model[cur] = UnknownModel
    /\ result.kind = "returned"
    /\ result.text = ValidA
    /\ result.source = cur

\* the backend answer that the step just taken consumed
Answered == Outcome(LastCall'.kind, LastCall'.text)
\* the step just taken is an iteration of a provider's retry loop
Iterates == pc = "backend" /\ req.op = "provider" /\ Len(events') > Len(events)
\* the events the step added
Added == SubSeq(events', Len(events) + 1, Len(events'))

\* C33: the three backends implement the same retry state machine: at every
\* iteration of the retry loop of any of them, on any backend outcome (valid
\* text, invalid text, rate limit, other error), each of the three providers
\* would in that attempt do what the running one did: one backend call, then
\* either sleep the same delay and go round again, return the same text, or
\* raise; so over a whole run they make the same number of calls, sleep the
\* same delays and end in the same outcome.
C33_Step ==
    Iterates =>
        \A q \in Providers :
            LET st == iteration(q, attempt, Answered) IN
            /\ Len(SelectSeq(Added, LAMBDA ev : ev.e = "call")) = 1
            /\ st.next = "retry" <=>
                    /\ attempt' = attempt + 1
                    /\ pc' = "backend"
                    /\ Added[Len(Added)] = SleepEvent(st.wait)
            /\ st.next = "return" <=>
                    /\ pc' = "provider_done"
                    /\ prov_out'.ok
                    /\ prov_out'.text = st.text
                    /\ Len(Added) = 1
            /\ st.next = "raise" <=>
                    /\ pc' = "provider_done"
                    /\ ~prov_out'.ok
                    /\ Len(Added) = 1
C33_SameRetryMachine == [][C33_Step]_vars

\* Bedrock was throttled twice and then returned a valid text, after sleeps of
\* 1 and 2 seconds
C33_Witness ==
    /\ pc = "done"
    /\ req.op = "provider"
    /\ cur = "bedrock"
    /\ Len(Calls) = 3
    /\ [i \in 1..Len(Sleeps) |-> Sleeps[i].wait] = << 1, 2 >>
    /\ result.kind = "returned"

\* some span of s from an `open` to a `close`, other than the one from the
\* first `open` to the last `close`, is JSON
ShorterSpanParses(open, close, s) ==
    \E i \in DOMAIN s : \E j \in DOMAIN s :
        /\ i < j /\ s[i] = open /\ s[j] = close
        /\ << i, j >> # << FirstAt(open, s), LastAt(close, s) >>
        /\ json_loads(SubSeq(s, i, j)).ok

\* C34: salvage is greedy and repairs nothing: on a text that is not JSON as a
\* whole, the only object candidate is the span from the first "{" to the last
\* "}" and the only array candidate the span from the first "[" to the last
\* "]"; when a candidate does not parse, no shorter span is tried, whether or
\* not one would parse, and the text is left as it was.  A JSON object followed
\* by prose with a later "}" is not recovered: '{"a":1} ok :-}' ends in the
\* parse error.
C34_Step ==
    (ParsesReturned /\ ~json_loads(result.text).ok) =>
        LET t == result.text
            braces == SpanParses("{", "}", t)
            brackets == SpanParses("[", "]", t)
        IN /\ result'.text = t
           /\ ~braces => result'.value.t # "object"
           /\ (~braces /\ ~brackets) => result'.kind = "raised"
           /\ (braces \/ ~brackets) => result'.value.t # "array"
           /\ result'.kind = "returned" =>
                result'.value \in
                    { json_loads(Span(b[1], b[2], t)).val :
                        b \in { x \in { << "{", "}" >>, << "[", "]" >> } :
                                    SpanParses(x[1], x[2], t) } }
           /\ t = TextObjectThenBrace =>
                result'.kind = "raised" /\ result'.error = "parse_error"
C34_GreedyNoRepair == [][C34_Step]_vars

\* the text holds the JSON object {"a":1} in a shorter span and has been refused
C34_Witness ==
    /\ pc = "parsed"
    /\ result.text = TextObjectThenBrace
    /\ ShorterSpanParses("{", "}", result.text)
    /\ ~SpanParses("{", "}", result.text)
    /\ result.kind = "raised"
    /\ result.error = "parse_error"

\* no parse of the salvage parser succeeds on t
Unparseable(t) ==
    /\ ~json_loads(t).ok
    /\ ~SpanParses("{", "}", t)
    /\ ~SpanParses("[", "]", t)
\* the parsing call has ended
JsonEnded == pc = "parsed" /\ InGenerate

\* C35: when generate_with_json_parsing runs with the cache enabled and the
\* text a provider returned cannot be parsed, the text is in the cache under
\* the request's key when the parse error is raised; and a request that finds
\* such an entry for its prompt and task type, at most 168 hours old, gets the
\* cached text, invokes no provider, leaves the cache as it is and fails with
\* the parse error of that text.  An entry older than that, or a cleared cache,
\* sends the request to the providers again.
C35_CachedParseFailure ==
    /\ (JsonEnded /\ req.use_cache /\ result.error = "parse_error"
          /\ invoked # << >>) =>
            /\ ReqKey \in DOMAIN cache
            /\ cache[ReqKey].response = result.text
            /\ cache[ReqKey].cached_at = now
    /\ (JsonEnded /\ req.use_cache /\ ReqKey \in DOMAIN cache0) =>
            LET e == cache0[ReqKey] IN
            /\ (Unparseable(e.response) /\ now - e.cached_at <= 168) =>
                    /\ result.kind = "raised"
                    /\ result.error = "parse_error"
                    /\ result.text = e.response
                    /\ result.quoted = e.response
                    /\ invoked = << >>
                    /\ contacted = {}
                    /\ cache = cache0
            /\ now - e.cached_at > 168 => invoked # << >>
    /\ (JsonEnded /\ req.use_cache /\ ReqKey \notin DOMAIN cache0) => invoked # << >>

\* an unparseable text cached 168 hours ago has failed a request again
C35_Witness ==
    /\ JsonEnded
    /\ req.use_cache
    /\ ReqKey \in DOMAIN cache0
    /\ cache0[ReqKey].response = TextNoJson
    /\ now - cache0[ReqKey].cached_at = 168
    /\ result.error = "parse_error"
    /\ invoked = << >>

\* C36: LLMCache.get deletes an entry only when that entry is older than the
\* maximum age: whenever a get and a set on the same key have both completed,
\* in whatever interleaving, and the entry that the latest completed set wrote
\* is not older than the maximum age, that entry is in the file.
C36_FreshEntrySurvives ==
    (ThreadsAtRest /\ file.committed.some /\ now - file.at <= 168) =>
        Held = file.committed

\* the entry of a prompt and a task classification, named by these two alone
EntryKey(prompt, task_type) == generate_cache_key(prompt, task_type, << >>)
\* the parameters of a request that the claim is about
Differs(r1, r2) ==
    /\ r1.prompt = r2.prompt /\ r1.task_type = r2.task_type
    /\ r1.provider_name # r2.provider_name
    /\ r1.max_tokens # r2.max_tokens
    /\ r1.temperature # r2.temperature
    /\ r1.system # r2.system
    /\ r1.stop_sequences # r2.stop_sequences

\* C37: the cache lookups and writes of LLMManager.generate depend only on the
\* prompt and the task classification: every entry generate writes lies under
\* the key of (prompt, task type) and records no parameters, and a request with
\* the cache enabled that finds the entry an earlier request wrote for the same
\* prompt and task type is answered with that response from the cache,
\* whatever provider override, max_tokens, temperature, system instruction and
\* stop sequences either request named.
C37_KeyIgnoresParameters ==
    /\ \A k \in DOMAIN cache :
            /\ k = EntryKey(cache[k].prompt, cache[k].model)
            /\ cache[k].parameters = << >>
    /\ (lastGen.valid /\ req.op = "generate" /\ pc = "provider_done" /\ prov_out.ok
          /\ req.use_cache) => EntryKey(req.prompt, req.task_type) \notin DOMAIN cache0
    /\ (InGenerate /\ pc = "done" /\ req.use_cache /\ lastGen.valid
          /\ lastGen.by.prompt = req.prompt /\ lastGen.by.task_type = req.task_type
          /\ EntryKey(req.prompt, req.task_type) \in DOMAIN cache0) =>
            /\ result = Returned(lastGen.text, "cache")
            /\ invoked = << >>
            /\ cache = cache0

\* a request that differs from the one that wrote the entry in the override,
\* max_tokens, temperature, system and stop_sequences got that entry's response
C37_Witness ==
    /\ InGenerate /\ pc = "done" /\ req.use_cache
    /\ lastGen.valid
    /\ Differs(lastGen.by, req)
    /\ result = Returned(lastGen.text, "cache")

\* the request names a provider that is available
OverrideHonoured == req.provider_name # None /\ Lower(req.provider_name) \in available
\* the providers whose active model the step changes
Remodelled == { p \in Providers : model'[p] # model[p] }

\* C38: a routing decision changes the active model of at most one provider,
\* the routed primary, and only for a low-cost ("simple"), revision
\* ("refinement") or high-quality ("script_generation") request whose override,
\* if any, is not honoured; a generic request and an honoured override change no
\* model; no other step of a call changes a model, so the fallback candidates
\* are invoked with the models they held when the call began, and a model that
\* routing set stays through the return and the later calls until a routing
\* step sets it again.
C38_Step ==
    /\ Cardinality(Remodelled) <= 1
    /\ Remodelled # {} =>
          /\ pc = "route" /\ pc' = "attempt"
          /\ req.task_type \in {"simple", "refinement", "script_generation"}
          /\ ~OverrideHonoured
          /\ Remodelled = { providers_to_try'[1] }
    /\ (pc = "route" /\ (OverrideHonoured \/ req.task_type = "general")) => model' = model
    /\ pc # "route" => model' = model
C38_State ==
    (InGenerate /\ pc \in {"attempt", "backend", "provider_done", "done"}
        /\ providers_to_try # << >>) =>
        \A i \in 2..Len(providers_to_try) :
            model[providers_to_try[i]] = model0[providers_to_try[i]]
C38_RoutingFrame == [][C38_Step]_vars /\ []C38_State

\* a generic request runs claude with the quality model that an earlier
\* request's routing set
C38_Witness ==
    /\ nops = 2 /\ InGenerate /\ pc = "backend"
    /\ req.task_type = "general" /\ req.provider_name = None
    /\ cur = "claude"
    /\ model["claude"] = get_quality_model("claude")
    /\ model["claude"] # DEFAULT_MODEL("claude")
    /\ model0 = model

\* t is not blank and has at least 10 characters between its first and its
\* last non-blank character
Substantial(t) == NonBlank(t) # {} /\ TrimLen(t) >= 10

\* C39: every cache entry that LLMManager.generate writes holds a response
\* that passed the provider's validation (trimmed length at least 10), and is
\* written only after a provider succeeded, with the text that provider
\* returned; so while only generate writes the cache, every text that generate
\* returns, from a provider or from the cache, is not blank and has trimmed
\* length at least 10.
C39_Step ==
    (\E k \in DOMAIN cache' : k \notin DOMAIN cache \/ cache'[k] # cache[k]) =>
        /\ InGenerate /\ pc = "provider_done" /\ prov_out.ok /\ req.use_cache
        /\ \A k \in DOMAIN cache' :
              (k \notin DOMAIN cache \/ cache'[k] # cache[k]) =>
                  /\ k = ReqKey
                  /\ cache'[k].response = prov_out.text
                  /\ cache'[k].response = LastCall.text
                  /\ Substantial(cache'[k].response)
C39_State ==
    /\ \A k \in DOMAIN cache : Substantial(cache[k].response)
    /\ (InGenerate /\ pc = "done" /\ result.kind = "returned") => Substantial(result.text)
C39_CacheHoldsValidated == [][C39_Step]_vars /\ []C39_State

\* a text that an earlier call stored, of trimmed length exactly 10, has been
\* served from the cache
C39_Witness ==
    /\ InGenerate /\ pc = "done"
    /\ result = Returned(ValidB, "cache")
    /\ cache[ReqKey].response = ValidB
    /\ TrimLen(ValidB) = 10
    /\ nops > 1

\* the entry that the call looked up was missing or unreadable when it began
BadEntry == req.key \notin DOMAIN cache0 \/ ~Readable(cache0[req.key])
WriteFailed == "set_failed" \in Range(cache_log)

\* C40. Cache failures never surface.  LLMCache.get and LLMCache.set end
\* without raising.  A get whose entry is missing or unreadable (malformed
\* included) returns a miss and leaves the store, the unreadable file
\* included, as it found it; a get whose file is removed by another caller
\* between the existence test and the open returns a miss; a set whose write
\* fails returns normally.  A LLMManager.generate call that finds such an
\* entry does not answer from the cache: it invokes a provider whenever one is
\* available; and a generate call whose cache write failed returns the text
\* the provider handed back, from that provider.
C40_CacheFailuresAreMisses ==
    pc = "done" =>
        /\ req.op \in {"get", "set"} => result.kind # "raised"
        /\ (req.op = "get" /\ cache_log = << "get" >> /\ BadEntry) =>
              (result = Missed /\ cache = cache0)
        /\ (req.op = "get" /\ cache_log = << "get_vanished" >>) =>
              (result = Missed /\ req.key \notin DOMAIN cache)
        /\ (req.op = "set" /\ WriteFailed) => result = Value(None)
        /\ (InGenerate /\ req.use_cache /\ ReqKey \in DOMAIN cache0
                /\ ~Readable(cache0[ReqKey])) =>
              /\ result.source # "cache"
              /\ available # {} => Calls # << >>
        /\ (InGenerate /\ WriteFailed) =>
              /\ Calls # << >>
              /\ result = Returned(LastCall.text, cur)
              /\ invoked # << >>
              /\ invoked[Len(invoked)] = cur

\* a generate call found an unreadable entry under its key, got a text from a
\* provider, the write of that text failed and the call returned the text;
\* the store holds an unreadable file under the key
C40_Witness ==
    /\ pc = "done"
    /\ InGenerate
    /\ ReqKey \in DOMAIN cache0
    /\ ~Readable(cache0[ReqKey])
    /\ cache_log = << "get", "set_failed" >>
    /\ result.kind = "returned"
    /\ ReqKey \in DOMAIN cache
    /\ ~Readable(cache[ReqKey])

====
